---- MODULE Spec2Model ----
(***************************************************************************)
(* Model of the request pipeline of dreamDownloader (src/bot.py):          *)
(* the file cache (src/database.py), the in-flight registry                *)
(* active_downloads, the download semaphore, the message path              *)
(* process_single_url and the inline path inline_handler /                 *)
(* download_and_cache_inline.                                              *)
(*                                                                         *)
(* asyncio is cooperative: a coroutine runs without interruption between   *)
(* two awaits that really suspend.  Every action below is one such run of  *)
(* one coroutine, from the point where it is resumed to the next point     *)
(* where it suspends or ends.                                              *)
(***************************************************************************)
EXTENDS Integers, Sequences, FiniteSets, TLC

\* ------------------------------------------------------------------ bounds
\* Number of user requests (messages with one URL, or inline queries).
NumReqs == 2
\* Number of files of a carousel (an extraction returns one file or a carousel).
MaxFiles == 2
\* Number of downloads for other URLs in the governor specification SpecGov.
MaxAnon == 12

\* Number of voice messages of a batch in SpecTranscribe.
MaxVoice == 9
\* Number of convert callbacks of each action in flight in SpecTranscribe.
MaxConverts == 2
\* Number of pieces of a URL string after its host in SpecURL.
MaxRest == 3
\* Number of links in a message in SpecMessage.
MaxURLs == 2
\* Number of save_file_to_cache calls in SpecCache.
MaxSaves == 3
\* Number of voice messages of a user in SpecBatch (they arrive in id order).
MaxMessages == 51
\* Number of voice messages of a user in SpecVoice (they arrive in any order)
\* and in SpecDebounce.
MaxShuffled == 3
\* Number of process_batch calls scheduled and not yet run.
MaxScheduled == 2

\* ------------------------------------------------------- program constants
MAX_CONCURRENT_DOWNLOADS == 10
chunk_size == 10
MAX_CONCURRENT_TRANSCRIPTIONS == 8
BATCH_MAX_SIZE == 50
\* BATCH_TIMEOUT = 0.5, in tenths of a second
BATCH_TIMEOUT == 5
\* max_workers=min(len(audio_files), 16) of the executor of process_voice_batch
executor_max_workers == 16

Reqs == 1..NumReqs
NoReq == 0

\* Canonical URLs (values of normalize_url).  "vt" is a short vt.tiktok.com
\* link, "tt" the full link it expands to, "sc" a soundcloud.com link.
CanonicalURLs == {"vt", "tt", "sc"}

\* expand_short_url: only a short link is expanded; the expansion has a 2 s
\* limit and returns the link itself when it fails or runs out of time.  The
\* callers strip the trailing backslashes of what it returns, so that the url
\* the key is computed from can differ from the link also without expansion.
expand_short_url(u) == IF u = "vt" THEN {"vt", "tt"} ELSE {u}

is_soundcloud(k) == k = "sc"

\* The lists of one element or of MaxFiles elements of S.
FileLists(S) == [1..1 -> S] \cup [1..MaxFiles -> S]

\* What Downloader.download returns for a URL, as the list of the kinds of the
\* returned files (sorted by the caller): for soundcloud only the audio
\* files, otherwise one photo, one video, or a carousel of photos and videos.
\* It never returns an empty list (it raises instead).
download_results(k) ==
  IF is_soundcloud(k)
  THEN FileLists({"audio"})
  ELSE FileLists({"photo", "video"})

\* ------------------------------------------------------------------- state
VARIABLES
  path,               \* request -> "none" | "msg" | "inline"
  key,                \* request -> its normalized_url ("none" before it starts)
  pc,                 \* request -> position of process_single_url / of the
                      \*            download_and_cache_inline task
  hpc,                \* request -> position of inline_handler
  joined,             \* request -> the request whose pending future it awaits(ed)
  promise,            \* request -> the asyncio.Future it created
  active_downloads,   \* normalized_url -> request whose future is registered
  cache,              \* file_cache table: normalized_url -> row
  download_semaphore, \* free permits of download_semaphore
  worker,             \* request -> state of its to_thread(download) thread
  delivered,          \* request -> transport ids sent to its chat
  ftype,              \* request -> file_type of its upload
  cache_id,           \* request -> its save_file_to_cache returned a row id
  answer,             \* request -> what query.answer was called with
  attempts,           \* request -> set_result/cancel calls made on its future
  anon_inslot,        \* SpecGov: downloads for other URLs inside the semaphore
  anon_orphans,       \* SpecGov: their worker threads that outlived wait_for
  anon_started        \* SpecGov: how many such downloads have started

\* State of the other pipelines of the bot.
VARIABLES
  transcription_semaphore, \* free permits of transcription_semaphore
  transcribing,            \* convert action -> its transcribe_audio_segments calls in progress
  executor                 \* ThreadPoolExecutor of process_voice_batch

tr_vars == <<transcription_semaphore, transcribing, executor>>

VARIABLES
  url_pc,      \* SpecURL: what has been computed so far
  url,         \* SpecURL: a URL string, as the sequence of its pieces
  url_n,       \* SpecURL: normalize_url(url)
  url_nn,      \* SpecURL: normalize_url(normalize_url(url))
  url_b,       \* SpecURL: a second URL string
  url_bn       \* SpecURL: normalize_url(url_b)

url_vars == <<url_pc, url, url_n, url_nn, url_b, url_bn>>

VARIABLES
  msg_pc,              \* SpecMessage: position of handle_message
  msg_urls,            \* SpecMessage: the links URL_PATTERN found in the text
  msg_replies,         \* SpecMessage: what handle_message answered
  tasks,               \* SpecMessage: the link of every task created
  task_pc,             \* SpecMessage: position of every task
  status_message,      \* SpecMessage: the placeholder was sent
  status_deleted_flag, \* SpecMessage: status_deleted_flag['deleted']
  delete_calls         \* SpecMessage: calls of status_message.delete()

msg_vars == <<msg_pc, msg_urls, msg_replies, tasks, task_pc, status_message,
              status_deleted_flag, delete_calls>>

VARIABLES
  file_cache,       \* SpecCache: the rows of table file_cache
  sqlite_sequence,  \* SpecCache: the largest id AUTOINCREMENT has given
  conn_pc,          \* SpecCache: connection -> position of its call
  conn_call,        \* SpecCache: connection -> locals of its save_file_to_cache
  got,              \* SpecCache: the latest get_cached_file and its result
  last_saved,       \* SpecCache: url -> arguments of the latest call written
  first_id,         \* SpecCache: url -> the id its INSERT returned
  save_calls,       \* SpecCache: calls of save_file_to_cache
  integrity_errors  \* SpecCache: INSERTs rejected by UNIQUE(url)

store_vars == <<file_cache, sqlite_sequence, conn_pc, conn_call, got, last_saved,
                first_id, save_calls, integrity_errors>>

VARIABLES
  user_message_batches, \* user_message_batches[user_id], as message ids
  batch_timers,         \* state of the timer batch_timers[user_id] refers to
  scheduled,            \* process_batch calls scheduled on the main loop
  arrived,              \* the messages add_message_to_batch was called for
  voice_pc,             \* position of process_voice_batch for the latest batch
  messages,             \* process_batch: the copy of the buffer
  voice_messages,       \* process_batch: the batch, sorted
  futures,              \* process_voice_batch: the future of every file
  completed,            \* indices of the futures in the order they ended
  transcribed_texts,    \* process_voice_batch: the results collected
  combined_text         \* the sections published, with their labels

batch_vars == <<user_message_batches, batch_timers, scheduled, arrived, voice_pc,
                messages, voice_messages, futures, completed, transcribed_texts,
                combined_text>>

VARIABLES
  since_arrival,  \* tenths of a second since the latest add_message_to_batch
  timers_pending  \* Timer threads started, neither cancelled nor expired

timer_vars == <<since_arrival, timers_pending>>

VARIABLES
  car_pc,       \* SpecCarousel: position of the carousel branch
  car_path,     \* SpecCarousel: "message" (process_single_url) or "inline"
  car_files,    \* SpecCarousel: the kinds of files / media_files, in list order
  car_i,        \* SpecCarousel: i of "for i in range(0, len(media_group), chunk_size)"
  car_sends,    \* SpecCarousel: the send calls made, in call order
  car_sent_all, \* SpecCarousel: sent_messages_all of the inline path
  car_ids,      \* SpecCarousel: uploaded_file_ids / file_ids, as the files uploaded
  car_removed,  \* SpecCarousel: os.remove calls of the harvest loops
  car_cleaned   \* SpecCarousel: cleanup(task_dir) ran after a failed send

car_vars == <<car_pc, car_path, car_files, car_i, car_sends, car_sent_all, car_ids,
              car_removed, car_cleaned>>

VARIABLES
  video_pc,          \* SpecVideo: position of the branch of a single video
  video_path,        \* SpecVideo: "message" (process_single_url) or "inline"
  file_size,         \* SpecVideo: os.path.getsize(file_path), in MB
  needs_opt,         \* SpecVideo: the answer of needs_telegram_optimization
  tool_runs,         \* SpecVideo: the runs of optimize_for_telegram / compress_video
  file_path_to_send, \* SpecVideo: the size in MB of the file given to the send
  send_attempt,      \* SpecVideo: attempt of send_file_with_retry
  sleeps,            \* SpecVideo: the asyncio.sleep calls of send_file_with_retry
  send_calls         \* SpecVideo: the send calls made, with their outcomes

video_vars == <<video_pc, video_path, file_size, needs_opt, tool_runs,
                file_path_to_send, send_attempt, sleeps, send_calls>>

VARIABLES
  ytdlp_lock,  \* SpecExtractor: the thread that holds _ytdlp_lock, or NoThread
  thread_call, \* SpecExtractor: thread -> the call site of yt_dlp it runs
  thread_pc    \* SpecExtractor: thread -> its position at this call site

ytdlp_vars == <<ytdlp_lock, thread_call, thread_pc>>

VARIABLES
  db_method,  \* SpecCursor: thread -> the method of Database it is inside
  db_next,    \* SpecCursor: thread -> the statement of the method it runs next
  cursor,     \* SpecCursor: the table of the SELECT self.cursor was given last
  db_fetched  \* SpecCursor: thread -> the table its latest fetch read from

cursor_vars == <<db_method, db_next, cursor, db_fetched>>

VARIABLES
  dl_pc,         \* SpecSalvage: position of Downloader.download and of its caller
  dl_branch,     \* SpecSalvage: the branch download takes for the url
  dl_fallback,   \* SpecSalvage: a failure of yt-dlp is followed by gallery-dl
  task_dir,      \* SpecSalvage: the files the task directory holds
  dl_end,        \* SpecSalvage: how the extraction ended
  partial_files, \* SpecSalvage: partial_files of download
  dl_files       \* SpecSalvage: the files download returned

salvage_vars == <<dl_pc, dl_branch, dl_fallback, task_dir, dl_end, partial_files,
                  dl_files>>

VARIABLES
  probe_pc,    \* SpecProbe: position of the call of needs_telegram_optimization
  probed,      \* SpecProbe: the file given, as what getsize and ffprobe say of it
  needs_result \* SpecProbe: the first element of the pair returned

probe_vars == <<probe_pc, probed, needs_result>>

VARIABLES
  sweep_pc,         \* SpecSweep: position of cleanup_expired_files
  downloaded_files, \* SpecSweep: ids of the rows of the table downloaded_files
  ttl_over,         \* SpecSweep: ids whose expires_at lies in the past
  on_disk,          \* SpecSweep: <<"file", r>> and <<"dir", r>> that exist
  sweep_due,        \* SpecSweep: rows with expires_at < the time of the sweep
  sweep_expired,    \* SpecSweep: rows fetched and not yet worked through
  deleted_count,    \* SpecSweep: the counter of cleanup_expired_files
  sweep_return      \* SpecSweep: the value returned, -1 before the return

sweep_vars == <<sweep_pc, downloaded_files, ttl_over, on_disk, sweep_due, sweep_expired,
                deleted_count, sweep_return>>

\* The pieces of work that use the directory downloads at one time.
MaxWorks == 2

Works == 1..MaxWorks

VARIABLES
  work_kind,          \* SpecIdle: what each piece of work is, "none" before it starts
  work_pc,            \* SpecIdle: "none", "using", "outlived" or "ended"
  registered,         \* SpecIdle: the work whose key is in active_downloads
  downloads,          \* SpecIdle: the entries of the directory downloads
  idle_cycle,         \* SpecIdle: registry and deletions of the last idle cycle
  now,                \* SpecRestart: time.time(), in minutes
  last_activity_time, \* SpecRestart: _last_activity_time
  restart_cooldown,   \* SpecRestart: _restart_cooldown, the start of the process
  monitor_pc,         \* SpecRestart: position of smart_restart_monitor
  restart_seen        \* SpecRestart: what the monitor measured when it decided

hk_vars == <<work_kind, work_pc, registered, downloads, idle_cycle, now,
             last_activity_time, restart_cooldown, monitor_pc, restart_seen>>

VARIABLES
  user_url, \* SpecKey: the link as the user typed it
  keyed,    \* SpecKey: the paths, "message" and "inline", the link has come in on
  key_of    \* SpecKey: normalized_url as each path has computed it

key_vars == <<user_url, keyed, key_of>>

late_vars == <<car_vars, video_vars, ytdlp_vars, cursor_vars, salvage_vars, probe_vars,
               sweep_vars, hk_vars, key_vars>>

more_vars == <<store_vars, batch_vars, timer_vars, late_vars>>

ext_vars == <<tr_vars, url_vars, msg_vars, more_vars>>

vars == <<path, key, pc, hpc, joined, promise, active_downloads, cache,
          download_semaphore, worker, delivered, ftype, cache_id, answer, attempts,
          anon_inslot, anon_orphans, anon_started, ext_vars>>

anon_vars == <<anon_inslot, anon_orphans, anon_started>>

NoRow == [ids |-> <<>>, kind |-> "none"]
NoPromise == [st |-> "none", ids |-> <<>>, kind |-> "none"]
Pending == [st |-> "pending", ids |-> <<>>, kind |-> "none"]
NoAnswer == [st |-> "none", ids |-> <<>>]

\* The actions of on_convert_action that call transcribe_audio_segments.
ConvertActions == {"transcription", "summary"}
\* No voice batch is being transcribed.
NoExecutor == [files |-> 0, left |-> 0]

Init ==
  /\ path = [r \in Reqs |-> "none"]
  /\ key = [r \in Reqs |-> "none"]
  /\ pc = [r \in Reqs |-> "idle"]
  /\ hpc = [r \in Reqs |-> "none"]
  /\ joined = [r \in Reqs |-> NoReq]
  /\ promise = [r \in Reqs |-> NoPromise]
  /\ active_downloads = [k \in CanonicalURLs |-> NoReq]
  /\ cache = [k \in CanonicalURLs |-> NoRow]
  /\ download_semaphore = MAX_CONCURRENT_DOWNLOADS
  /\ worker = [r \in Reqs |-> "none"]
  /\ delivered = [r \in Reqs |-> <<>>]
  /\ ftype = [r \in Reqs |-> "none"]
  /\ cache_id = [r \in Reqs |-> FALSE]
  /\ answer = [r \in Reqs |-> NoAnswer]
  /\ attempts = [r \in Reqs |-> 0]
  /\ anon_inslot = 0
  /\ anon_orphans = 0
  /\ anon_started = 0
  /\ transcription_semaphore = MAX_CONCURRENT_TRANSCRIPTIONS
  /\ transcribing = [a \in ConvertActions |-> 0]
  /\ executor = NoExecutor
  /\ url_pc = "none"
  /\ url = <<>> /\ url_n = <<>> /\ url_nn = <<>> /\ url_b = <<>> /\ url_bn = <<>>
  /\ msg_pc = "none"
  /\ msg_urls = <<>> /\ msg_replies = <<>> /\ tasks = <<>> /\ task_pc = <<>>
  /\ status_message = FALSE /\ status_deleted_flag = FALSE /\ delete_calls = 0
  /\ file_cache = {} /\ sqlite_sequence = 0
  /\ conn_pc = [c \in {"bot", "api"} |-> "idle"]
  /\ conn_call = [c \in {"bot", "api"} |->
                   [url |-> "none", file_ids |-> <<>>, kind |-> "none",
                    file_id_str |-> <<>>, media_type |-> "none", existing |-> 0]]
  /\ got = [url |-> "none", result |-> [file_ids |-> <<>>, media_type |-> "none"]]
  /\ last_saved = [u \in {"u1", "u2"} |-> [file_ids |-> <<>>, media_type |-> "none"]]
  /\ first_id = [u \in {"u1", "u2"} |-> 0]
  /\ save_calls = 0 /\ integrity_errors = 0
  /\ user_message_batches = <<>> /\ batch_timers = "none" /\ scheduled = 0
  /\ arrived = {} /\ voice_pc = "none" /\ messages = <<>> /\ voice_messages = <<>>
  /\ futures = <<>> /\ completed = <<>> /\ transcribed_texts = <<>>
  /\ combined_text = <<>>
  /\ since_arrival = 0 /\ timers_pending = 0
  /\ car_pc = "none" /\ car_path = "none" /\ car_files = <<>> /\ car_i = 0
  /\ car_sends = <<>> /\ car_sent_all = <<>> /\ car_ids = <<>>
  /\ car_removed = {} /\ car_cleaned = FALSE
  /\ video_pc = "none" /\ video_path = "none" /\ file_size = 0 /\ needs_opt = FALSE
  /\ tool_runs = <<>> /\ file_path_to_send = 0 /\ send_attempt = 0
  /\ sleeps = <<>> /\ send_calls = <<>>
  /\ ytdlp_lock = "free"
  /\ thread_call = [t \in {"t1", "t2", "t3"} |-> "none"]
  /\ thread_pc = [t \in {"t1", "t2", "t3"} |-> "idle"]
  /\ db_method = [t \in {"loop", "sweeper"} |-> "none"]
  /\ db_next = [t \in {"loop", "sweeper"} |-> 0]
  /\ cursor = "none"
  /\ db_fetched = [t \in {"loop", "sweeper"} |-> "none"]
  /\ dl_pc = "none" /\ dl_branch = "none" /\ dl_fallback = FALSE /\ task_dir = {}
  /\ dl_end = "none" /\ partial_files = {"None"} /\ dl_files = {}
  /\ probe_pc = "none" /\ probed = [size |-> 0, probe |-> "none"] /\ needs_result = FALSE
  /\ sweep_pc = "none" /\ downloaded_files = {} /\ ttl_over = {} /\ on_disk = {}
  /\ sweep_due = {} /\ sweep_expired = {} /\ deleted_count = 0 /\ sweep_return = -1
  /\ work_kind = [w \in Works |-> "none"] /\ work_pc = [w \in Works |-> "none"]
  /\ registered = {} /\ downloads = {}
  /\ idle_cycle = [registry |-> {}, deleted |-> {}]
  /\ now = 0 /\ last_activity_time = 0 /\ restart_cooldown = 0
  /\ monitor_pc = "sleep"
  /\ restart_seen = [registry |-> {}, idle_for |-> 0, memory_mb |-> 0,
                     memory_percent |-> 0, since_restart |-> 0]
  /\ user_url = <<>> /\ keyed = {} /\ key_of = [p \in {"message", "inline"} |-> <<>>]

\* ---------------------------------------------------------------- database
\* db.get_cached_file: the row stored under the url, None when there is none.
get_cached_file(k) == cache[k]

is_cached(k) == cache[k] # NoRow

\* A save that is lost: the table stays as it was.
save_file_to_cache_lost(c, k, file_ids, media_type) == c

\* db.save_file_to_cache: upsert of the single row of the url; a list of
\* more than one id is stored with media_type 'carousel'.  This is the table
\* after a write that went through; when sqlite raises, the method logs the
\* error and returns None, the table is as before: the
\* actions that write take the outcome as their argument saved.
save_file_to_cache(c, k, file_ids, media_type) ==
  [c EXCEPT ![k] = [ids |-> file_ids,
                    kind |-> IF Len(file_ids) > 1 THEN "carousel" ELSE media_type]]

\* ----------------------------------------------------------------- uploads
\* The transport id Telegram returns for item i uploaded by request r.
file_id(r, i) == <<r, i>>

\* The items of a carousel are sent in chunks of chunk_size.
chunk_of(i) == ((i - 1) \div chunk_size) + 1
num_chunks(n) == (n + chunk_size - 1) \div chunk_size

\* Outcomes of the send calls of one upload: chunk -> did the call succeed.
SendOutcomes(n) == [1..num_chunks(n) -> BOOLEAN]

\* The ids harvested from the replies of the chunks that were sent.
uploaded_file_ids(r, n, oks) ==
  SelectSeq([i \in 1..n |-> file_id(r, i)], LAMBDA id : oks[chunk_of(id[2])])

\* Only photos and videos are put into a media group.
media_group(files) == SelectSeq(files, LAMBDA x : x \in {"photo", "video"})

\* process_single_url: carousel_type is the kind of the last item added to
\* the media group, 'photo' when there is none.
carousel_type(files) ==
  LET mg == media_group(files)
  IN  IF mg = <<>> THEN "photo" ELSE mg[Len(mg)]

\* ------------------------------------------------------------------ futures
with_result(ids, kind) == [st |-> "result", ids |-> ids, kind |-> kind]

\* `if not future.done(): future.set_result(result)`
set_result_guarded(pr, p, ids, kind) ==
  IF pr[p].st = "pending" THEN [pr EXCEPT ![p] = with_result(ids, kind)] ELSE pr

set_result_guarded_attempts(at, pr, p) ==
  IF pr[p].st = "pending" THEN [at EXCEPT ![p] = @ + 1] ELSE at

\* `future.set_result(result)` with no test: on a future that is already done
\* the call raises InvalidStateError and leaves the future as it is.
set_result_unguarded(pr, p, ids, kind) == set_result_guarded(pr, p, ids, kind)

\* asyncio.wait_for(future, timeout) on a bare future: when the timeout fires
\* the awaited future itself is cancelled.
wait_for_timeout(pr, p) == [pr EXCEPT ![p] = [st |-> "cancelled", ids |-> <<>>, kind |-> "none"]]

\* ------------------------------------------------- process_single_url (msg)
\* Requests arrive one after the other.
may_start(r) == pc[r] = "idle" /\ \A q \in Reqs : q < r => pc[q] # "idle"

\* The requests of one run are for links of one site.  Requests for links
\* of different sites have different normalized urls and share nothing but
\* the download semaphore, whose exhaustion SpecGov covers.
same_site(u) == \A q \in Reqs : key[q] # "none" => is_soundcloud(key[q]) = is_soundcloud(u)

\* Step 4: create the future, register it under the url (whatever was there
\* is overwritten), take a permit and start the download thread.
process_single_url_install(r, k) ==
  /\ download_semaphore > 0
  /\ promise' = [promise EXCEPT ![r] = Pending]
  /\ active_downloads' = [active_downloads EXCEPT ![k] = r]
  /\ download_semaphore' = download_semaphore - 1
  /\ worker' = [worker EXCEPT ![r] = "running"]
  /\ pc' = [pc EXCEPT ![r] = "extracting"]

\* A follower that got a non-empty result sends the ids itself.
process_single_url_send_joined(r, p, ok) ==
  /\ pc' = [pc EXCEPT ![r] = IF ok THEN "done" ELSE "retry"]
  /\ delivered' = [delivered EXCEPT ![r] = IF ok THEN promise[p].ids ELSE <<>>]
  /\ UNCHANGED <<promise, active_downloads, download_semaphore, worker>>

\* What a follower does once the future it awaits is done.
process_single_url_joined(r, p, k, ok) ==
  CASE promise[p].st = "cancelled" ->
         \* CancelledError is not an Exception: it leaves the coroutine.
         /\ pc' = [pc EXCEPT ![r] = "aborted"]
         /\ UNCHANGED <<promise, active_downloads, download_semaphore, worker, delivered>>
    [] promise[p].st = "result" /\ promise[p].ids # <<>> ->
         process_single_url_send_joined(r, p, ok)
    [] OTHER ->
         \* empty result: falls through to step 4 without suspending
         /\ process_single_url_install(r, k)
         /\ UNCHANGED delivered

\* Entry of process_single_url up to its first suspension: cache, registry,
\* own download.
process_single_url_start(r) ==
  /\ may_start(r)
  /\ \E u \in CanonicalURLs : \E k \in expand_short_url(u) : \E ok \in BOOLEAN :
       /\ same_site(u)
       /\ path' = [path EXCEPT ![r] = "msg"]
       /\ key' = [key EXCEPT ![r] = k]
       /\ IF is_cached(k)
          THEN /\ delivered' = [delivered EXCEPT ![r] = IF ok THEN get_cached_file(k).ids ELSE <<>>]
               /\ pc' = [pc EXCEPT ![r] = "done"]
               /\ UNCHANGED <<joined, promise, active_downloads, download_semaphore, worker>>
          ELSE IF active_downloads[k] # NoReq
          THEN LET p == active_downloads[k] IN
               IF promise[p].st = "pending"
               THEN /\ joined' = [joined EXCEPT ![r] = p]
                    /\ pc' = [pc EXCEPT ![r] = "follow"]
                    /\ UNCHANGED <<promise, active_downloads, download_semaphore, worker, delivered>>
               ELSE /\ process_single_url_joined(r, p, k, ok)
                    /\ UNCHANGED joined
          ELSE /\ process_single_url_install(r, k)
               /\ UNCHANGED <<joined, delivered>>
  /\ UNCHANGED <<hpc, cache, ftype, cache_id, answer, attempts, anon_vars, ext_vars>>

\* The awaited future is done: the follower is resumed.
process_single_url_follow_done(r) ==
  /\ pc[r] = "follow" /\ path[r] = "msg"
  /\ promise[joined[r]].st # "pending"
  /\ \E ok \in BOOLEAN : process_single_url_joined(r, joined[r], key[r], ok)
  /\ UNCHANGED <<path, key, hpc, joined, cache, ftype, cache_id, answer, attempts, anon_vars, ext_vars>>

\* 300 s have passed and the future is still pending: wait_for cancels it and
\* raises TimeoutError, which `except Exception` catches.
process_single_url_follow_timeout(r) ==
  /\ pc[r] = "follow" /\ path[r] = "msg"
  /\ promise[joined[r]].st = "pending"
  /\ promise' = wait_for_timeout(promise, joined[r])
  /\ attempts' = [attempts EXCEPT ![joined[r]] = @ + 1]
  /\ pc' = [pc EXCEPT ![r] = "retry"]
  /\ UNCHANGED <<path, key, hpc, joined, active_downloads, cache, download_semaphore,
                 worker, delivered, ftype, cache_id, answer, anon_vars, ext_vars>>

\* After the except branch of step 2 (it awaits the deletion of the status
\* message) the coroutine goes on to step 4.
process_single_url_retry(r) ==
  /\ pc[r] = "retry"
  /\ process_single_url_install(r, key[r])
  /\ UNCHANGED <<path, key, hpc, joined, cache, delivered, ftype, cache_id, answer, attempts, anon_vars, ext_vars>>

\* The download thread returns the files within 600 s.
process_single_url_extracted(r) ==
  /\ pc[r] = "extracting" /\ path[r] = "msg"
  /\ worker' = [worker EXCEPT ![r] = "none"]
  /\ download_semaphore' = download_semaphore + 1
  /\ pc' = [pc EXCEPT ![r] = "uploading"]
  /\ UNCHANGED <<path, key, hpc, joined, promise, active_downloads, cache,
                 delivered, ftype, cache_id, answer, attempts, anon_vars, ext_vars>>

\* The download raises: the outer `except Exception` reports the error and
\* resolves the future, if it is not done, with an empty result.
process_single_url_extract_failed(r) ==
  /\ pc[r] = "extracting" /\ path[r] = "msg"
  /\ worker' = [worker EXCEPT ![r] = "none"]
  /\ download_semaphore' = download_semaphore + 1
  /\ promise' = set_result_guarded(promise, r, <<>>, "none")
  /\ attempts' = set_result_guarded_attempts(attempts, promise, r)
  /\ pc' = [pc EXCEPT ![r] = "done"]
  /\ UNCHANGED <<path, key, hpc, joined, active_downloads, cache,
                 delivered, ftype, cache_id, answer, anon_vars, ext_vars>>

\* 600 s have passed: wait_for gives up, the thread cannot be cancelled and
\* goes on; future.set_result is called without a test; the permit is given
\* back on return.
process_single_url_extract_timeout(r) ==
  /\ pc[r] = "extracting" /\ path[r] = "msg"
  /\ worker' = [worker EXCEPT ![r] = "orphan"]
  /\ download_semaphore' = download_semaphore + 1
  /\ promise' = set_result_unguarded(promise, r, <<>>, "none")
  /\ attempts' = [attempts EXCEPT ![r] = @ + 1]
  /\ pc' = [pc EXCEPT ![r] = "done"]
  /\ UNCHANGED <<path, key, hpc, joined, active_downloads, cache,
                 delivered, ftype, cache_id, answer, anon_vars, ext_vars>>

\* A download thread that outlived its wait_for comes to its end.
download_thread_exit(r) ==
  /\ worker[r] = "orphan"
  /\ worker' = [worker EXCEPT ![r] = "none"]
  /\ UNCHANGED <<path, key, pc, hpc, joined, promise, active_downloads, cache,
                 download_semaphore, delivered, ftype, cache_id, answer, attempts, anon_vars, ext_vars>>

\* The files are sent, the ids harvested from the replies and the cache row
\* written.  A soundcloud result of several audio files sends the first one,
\* writes the row and returns.
process_single_url_upload_with(r, saved) ==
  /\ pc[r] = "uploading" /\ path[r] = "msg"
  /\ \E files \in download_results(key[r]) :
       IF Len(files) > 1 /\ is_soundcloud(key[r])
       THEN \E ok \in BOOLEAN :
              LET ids == IF ok THEN <<file_id(r, 1)>> ELSE <<>> IN
              /\ delivered' = [delivered EXCEPT ![r] = ids]
              /\ ftype' = [ftype EXCEPT ![r] = IF ok THEN "audio" ELSE "video"]
              /\ cache_id' = [cache_id EXCEPT ![r] = ok /\ saved]
              /\ cache' = IF ok /\ saved THEN save_file_to_cache(cache, key[r], ids, "audio") ELSE cache
              /\ pc' = [pc EXCEPT ![r] = "done"]
       ELSE LET n == IF Len(files) = 1 THEN 1 ELSE Len(media_group(files))
                sent_as == IF Len(files) = 1 THEN files[1] ELSE carousel_type(files)
            IN  \E oks \in SendOutcomes(n) :
                  LET ids == uploaded_file_ids(r, n, oks) IN
                  /\ delivered' = [delivered EXCEPT ![r] = ids]
                  /\ ftype' = [ftype EXCEPT ![r] = IF ids # <<>> THEN sent_as ELSE "video"]
                  /\ cache_id' = [cache_id EXCEPT ![r] = ids # <<>> /\ saved]
                  /\ cache' = IF ids # <<>> /\ saved
                              THEN save_file_to_cache(cache, key[r], ids, sent_as)
                              ELSE cache
                  /\ pc' = [pc EXCEPT ![r] = "fulfil"]
  /\ UNCHANGED <<path, key, hpc, joined, promise, active_downloads,
                 download_semaphore, worker, answer, attempts, anon_vars, ext_vars>>

\* The write to file_cache goes through.
process_single_url_upload(r) == process_single_url_upload_with(r, TRUE)

\* sqlite raises in save_file_to_cache: logged, None returned, the handler
\* goes on.
process_single_url_upload_unsaved(r) == process_single_url_upload_with(r, FALSE)

\* End of process_single_url: the result is put into the future if it is not
\* done; the finally block leaves the registry as it is.
process_single_url_fulfil(r) ==
  /\ pc[r] = "fulfil" /\ path[r] = "msg"
  /\ promise' = set_result_guarded(promise, r, delivered[r], ftype[r])
  /\ attempts' = set_result_guarded_attempts(attempts, promise, r)
  /\ pc' = [pc EXCEPT ![r] = "done"]
  /\ UNCHANGED <<path, key, hpc, joined, active_downloads, cache, download_semaphore,
                 worker, delivered, ftype, cache_id, answer, anon_vars, ext_vars>>

\* ------------------------------------------- download_and_cache_inline task
\* The finally block: when the task's future is done, the entry registered
\* under the url is popped.
finally_pop(ad, pr, r, k) ==
  IF ad[k] # NoReq /\ pr[r].st # "pending" THEN [ad EXCEPT ![k] = NoReq] ELSE ad

\* Tail of the task: guarded set_result, return, finally.
download_and_cache_inline_finish(r, ids, kind) ==
  /\ promise' = set_result_guarded(promise, r, ids, kind)
  /\ attempts' = set_result_guarded_attempts(attempts, promise, r)
  /\ active_downloads' = finally_pop(active_downloads, promise', r, key[r])
  /\ pc' = [pc EXCEPT ![r] = "done"]

\* First run of the task created by inline_handler: join the registered
\* future or register an own one and start the download.
download_and_cache_inline_start(r) ==
  /\ pc[r] = "spawned"
  /\ IF active_downloads[key[r]] # NoReq
     THEN LET p == active_downloads[key[r]] IN
          /\ joined' = [joined EXCEPT ![r] = p]
          /\ pc' = [pc EXCEPT ![r] = CASE promise[p].st = "pending" -> "dci_follow"
                                       [] promise[p].st = "result" -> "done_joined"
                                       [] OTHER -> "aborted"]
          /\ UNCHANGED <<promise, active_downloads, download_semaphore, worker>>
     ELSE /\ process_single_url_install(r, key[r])
          /\ UNCHANGED joined
  /\ UNCHANGED <<path, key, hpc, cache, delivered, ftype, cache_id, answer, attempts, anon_vars, ext_vars>>

\* `await future` of a joined task returns, or raises CancelledError.
download_and_cache_inline_follow_done(r) ==
  /\ pc[r] = "dci_follow"
  /\ promise[joined[r]].st # "pending"
  /\ pc' = [pc EXCEPT ![r] = IF promise[joined[r]].st = "result" THEN "done_joined" ELSE "aborted"]
  /\ UNCHANGED <<path, key, hpc, joined, promise, active_downloads, cache,
                 download_semaphore, worker, delivered, ftype, cache_id, answer, attempts, anon_vars, ext_vars>>

download_and_cache_inline_extracted(r) ==
  /\ pc[r] = "extracting" /\ path[r] = "inline"
  /\ worker' = [worker EXCEPT ![r] = "none"]
  /\ download_semaphore' = download_semaphore + 1
  /\ pc' = [pc EXCEPT ![r] = "uploading"]
  /\ UNCHANGED <<path, key, hpc, joined, promise, active_downloads, cache,
                 delivered, ftype, cache_id, answer, attempts, anon_vars, ext_vars>>

\* The download raises, or its 600 s run out (then the thread goes on): the
\* error is re-raised to the outer `except Exception`.
download_and_cache_inline_extract_failed(r) ==
  /\ pc[r] = "extracting" /\ path[r] = "inline"
  /\ \E timed_out \in BOOLEAN :
       worker' = [worker EXCEPT ![r] = IF timed_out THEN "orphan" ELSE "none"]
  /\ download_semaphore' = download_semaphore + 1
  /\ download_and_cache_inline_finish(r, <<>>, "none")
  /\ UNCHANGED <<path, key, hpc, joined, cache, delivered, ftype, cache_id, answer, anon_vars, ext_vars>>

\* The files are sent to the user's chat, the ids harvested, the row written.
\* file_type is the kind of the first file.
download_and_cache_inline_upload_with(r, saved) ==
  /\ pc[r] = "uploading" /\ path[r] = "inline"
  /\ \E files \in download_results(key[r]) :
       LET file_type == files[1]
           n == IF Len(files) = 1 THEN 1 ELSE Len(media_group(files))
       IN  IF n = 0
           THEN \* empty media group: set_result without a test, then cleanup
                /\ promise' = set_result_unguarded(promise, r, <<>>, "none")
                /\ attempts' = [attempts EXCEPT ![r] = @ + 1]
                /\ pc' = [pc EXCEPT ![r] = "fulfil"]
                /\ UNCHANGED <<active_downloads, cache, delivered, ftype, cache_id>>
           ELSE \E oks \in SendOutcomes(n) :
                  LET ids == uploaded_file_ids(r, n, oks) IN
                  /\ delivered' = [delivered EXCEPT ![r] = ids]
                  /\ ftype' = [ftype EXCEPT ![r] = file_type]
                  /\ cache_id' = [cache_id EXCEPT ![r] = ids # <<>> /\ saved]
                  /\ cache' = IF ids # <<>> /\ saved
                              THEN save_file_to_cache(cache, key[r], ids, file_type)
                              ELSE cache
                  /\ IF Len(files) = 1 /\ file_type = "video" /\ ids # <<>> /\ saved
                     THEN \* the convert button is added before the result is set
                          /\ pc' = [pc EXCEPT ![r] = "fulfil"]
                          /\ UNCHANGED <<promise, attempts, active_downloads>>
                     ELSE download_and_cache_inline_finish(r, ids, file_type)
  /\ UNCHANGED <<path, key, hpc, joined, download_semaphore, worker, answer, anon_vars, ext_vars>>

\* The write to file_cache goes through.
download_and_cache_inline_upload(r) == download_and_cache_inline_upload_with(r, TRUE)

\* sqlite raises in save_file_to_cache: no row id, no convert button.
download_and_cache_inline_upload_unsaved(r) == download_and_cache_inline_upload_with(r, FALSE)

download_and_cache_inline_fulfil(r) ==
  /\ pc[r] = "fulfil" /\ path[r] = "inline"
  /\ download_and_cache_inline_finish(r, delivered[r], ftype[r])
  /\ UNCHANGED <<path, key, hpc, joined, cache, download_semaphore, worker,
                 delivered, ftype, cache_id, answer, anon_vars, ext_vars>>

\* ------------------------------------------------------------ inline_handler
\* An answer that lists the ids from the last to the first.
answer_results_reversed(ids) ==
  [st |-> "results", ids |-> [i \in 1..Len(ids) |-> ids[Len(ids) + 1 - i]]]

\* query.answer(results): one result per id, in the order of the list.
answer_results(ids) == [st |-> "results", ids |-> ids]
answer_empty == [st |-> "empty", ids |-> <<>>]

\* Step 3: create the download task.
inline_handler_spawn(r) ==
  /\ pc' = [pc EXCEPT ![r] = "spawned"]
  /\ hpc' = [hpc EXCEPT ![r] = "wait_task"]
  /\ UNCHANGED answer

\* The joined future is done.
inline_handler_joined(r, p, k) ==
  CASE promise[p].st = "cancelled" ->
         /\ hpc' = [hpc EXCEPT ![r] = "dead"]
         /\ pc' = [pc EXCEPT ![r] = "notask"]
         /\ UNCHANGED answer
    [] promise[p].st = "result" /\ promise[p].ids # <<>> /\ is_cached(k) ->
         /\ answer' = [answer EXCEPT ![r] = answer_results(get_cached_file(k).ids)]
         /\ hpc' = [hpc EXCEPT ![r] = "answered"]
         /\ pc' = [pc EXCEPT ![r] = "notask"]
    [] OTHER -> inline_handler_spawn(r)

\* inline_handler from the cache lookup to its first suspension.
inline_handler_start_with(r, saved) ==
  /\ may_start(r)
  /\ \E u \in CanonicalURLs : \E k \in expand_short_url(u) :
       /\ same_site(u)
       /\ path' = [path EXCEPT ![r] = "inline"]
       /\ key' = [key EXCEPT ![r] = k]
       /\ IF is_cached(k)
          THEN /\ answer' = [answer EXCEPT ![r] = answer_results(get_cached_file(k).ids)]
               /\ hpc' = [hpc EXCEPT ![r] = "answered"]
               /\ pc' = [pc EXCEPT ![r] = "notask"]
               /\ UNCHANGED <<cache, joined>>
          ELSE IF u # k /\ is_cached(u)
          THEN \* found under the unexpanded url: the row is copied to the new key
               /\ cache' = IF saved
                           THEN save_file_to_cache(cache, k, get_cached_file(u).ids, get_cached_file(u).kind)
                           ELSE cache
               /\ answer' = [answer EXCEPT ![r] = answer_results(get_cached_file(u).ids)]
               /\ hpc' = [hpc EXCEPT ![r] = "answered"]
               /\ pc' = [pc EXCEPT ![r] = "notask"]
               /\ UNCHANGED joined
          ELSE IF active_downloads[k] # NoReq
          THEN LET p == active_downloads[k] IN
               /\ UNCHANGED cache
               /\ IF promise[p].st = "pending"
                  THEN /\ joined' = [joined EXCEPT ![r] = p]
                       /\ hpc' = [hpc EXCEPT ![r] = "follow"]
                       /\ pc' = [pc EXCEPT ![r] = "notask"]
                       /\ UNCHANGED answer
                  ELSE /\ inline_handler_joined(r, p, k)
                       /\ UNCHANGED joined
          ELSE /\ inline_handler_spawn(r)
               /\ UNCHANGED <<cache, joined>>
  /\ UNCHANGED <<promise, active_downloads, download_semaphore, worker,
                 delivered, ftype, cache_id, attempts, anon_vars, ext_vars>>

\* The write to file_cache goes through.
inline_handler_start(r) == inline_handler_start_with(r, TRUE)

\* sqlite raises in save_file_to_cache: the row found under the old key is
\* served all the same.
inline_handler_start_unsaved(r) == inline_handler_start_with(r, FALSE)

inline_handler_follow_done(r) ==
  /\ hpc[r] = "follow"
  /\ promise[joined[r]].st # "pending"
  /\ inline_handler_joined(r, joined[r], key[r])
  /\ UNCHANGED <<path, key, joined, promise, active_downloads, cache, download_semaphore,
                 worker, delivered, ftype, cache_id, attempts, anon_vars, ext_vars>>

\* 8 s have passed: wait_for cancels the joined future; the query is
\* answered with an empty list.
inline_handler_follow_timeout(r) ==
  /\ hpc[r] = "follow"
  /\ promise[joined[r]].st = "pending"
  /\ promise' = wait_for_timeout(promise, joined[r])
  /\ attempts' = [attempts EXCEPT ![joined[r]] = @ + 1]
  /\ answer' = [answer EXCEPT ![r] = answer_empty]
  /\ hpc' = [hpc EXCEPT ![r] = "answered"]
  /\ UNCHANGED <<path, key, pc, joined, active_downloads, cache, download_semaphore,
                 worker, delivered, ftype, cache_id, anon_vars, ext_vars>>

\* What the download task returned as file_ids.
task_file_ids(r) ==
  IF pc[r] = "done_joined" THEN promise[joined[r]].ids ELSE delivered[r]

\* The download task ended within 10 s.
inline_handler_task_done(r) ==
  /\ hpc[r] = "wait_task"
  /\ pc[r] \in {"done", "done_joined", "aborted"}
  /\ IF pc[r] = "aborted"
     THEN /\ hpc' = [hpc EXCEPT ![r] = "dead"]
          /\ UNCHANGED answer
     ELSE IF task_file_ids(r) = <<>>
     THEN \* nothing to show: the handler ends without answering
          /\ hpc' = [hpc EXCEPT ![r] = "ended"]
          /\ UNCHANGED answer
     ELSE /\ hpc' = [hpc EXCEPT ![r] = "answered"]
          /\ answer' = [answer EXCEPT ![r] =
                          IF is_cached(key[r])
                          THEN answer_results(get_cached_file(key[r]).ids)
                          ELSE answer_empty]
  /\ UNCHANGED <<path, key, pc, joined, promise, active_downloads, cache,
                 download_semaphore, worker, delivered, ftype, cache_id, attempts, anon_vars, ext_vars>>

\* Without the shield the timeout of wait_for would cancel the task.
unshielded_task_after_timeout(r) == "aborted"

\* asyncio.shield(download_task): the timeout of wait_for cancels the shield,
\* not the task.
shielded_task_after_timeout(r) == pc[r]

\* 10 s have passed and the task has not ended: empty answer.
inline_handler_task_timeout(r) ==
  /\ hpc[r] = "wait_task"
  /\ pc[r] \notin {"done", "done_joined", "aborted"}
  /\ answer' = [answer EXCEPT ![r] = answer_empty]
  /\ hpc' = [hpc EXCEPT ![r] = "answered"]
  /\ pc' = [pc EXCEPT ![r] = shielded_task_after_timeout(r)]
  /\ UNCHANGED <<path, key, joined, promise, active_downloads, cache,
                 download_semaphore, worker, delivered, ftype, cache_id, attempts, anon_vars, ext_vars>>

Next ==
  \E r \in Reqs :
    \/ process_single_url_start(r)
    \/ process_single_url_follow_done(r)
    \/ process_single_url_follow_timeout(r)
    \/ process_single_url_retry(r)
    \/ process_single_url_extracted(r)
    \/ process_single_url_extract_failed(r)
    \/ process_single_url_extract_timeout(r)
    \/ process_single_url_upload(r)
    \/ process_single_url_fulfil(r)
    \/ download_thread_exit(r)
    \/ inline_handler_start(r)
    \/ inline_handler_follow_done(r)
    \/ inline_handler_follow_timeout(r)
    \/ inline_handler_task_done(r)
    \/ inline_handler_task_timeout(r)
    \/ download_and_cache_inline_start(r)
    \/ download_and_cache_inline_follow_done(r)
    \/ download_and_cache_inline_extracted(r)
    \/ download_and_cache_inline_extract_failed(r)
    \/ download_and_cache_inline_upload(r)
    \/ download_and_cache_inline_fulfil(r)

Spec == Init /\ [][Next]_vars

\* ------------------------------------------------ a store that may fail
\* The program with a file_cache whose writes may fail: save_file_to_cache
\* catches the exception, logs it and returns None.
NextStore ==
  \/ Next
  \/ \E r \in Reqs :
       \/ process_single_url_upload_unsaved(r)
       \/ download_and_cache_inline_upload_unsaved(r)
       \/ inline_handler_start_unsaved(r)

SpecStore == Init /\ [][NextStore]_vars

\* --------------------------------------------------- the download governor
\* Downloads for other urls: each is the leader for its own url, so only the
\* semaphore and the download threads matter.
req_vars == <<path, key, pc, hpc, joined, promise, active_downloads, cache,
              worker, delivered, ftype, cache_id, answer, attempts>>

\* `async with download_semaphore:` is entered (a coroutine that finds no
\* permit waits) and the download thread is started.
download_semaphore_acquire ==
  /\ anon_started < MaxAnon
  /\ download_semaphore > 0
  /\ download_semaphore' = download_semaphore - 1
  /\ anon_inslot' = anon_inslot + 1
  /\ anon_started' = anon_started + 1
  /\ UNCHANGED <<req_vars, anon_orphans, ext_vars>>

\* The download returns or raises within 600 s; the block is left.
download_semaphore_release ==
  /\ anon_inslot > 0
  /\ anon_inslot' = anon_inslot - 1
  /\ download_semaphore' = download_semaphore + 1
  /\ UNCHANGED <<req_vars, anon_orphans, anon_started, ext_vars>>

\* 600 s have passed: wait_for raises TimeoutError, the block is left and the
\* permit given back; the thread started by asyncio.to_thread goes on.
download_wait_for_timeout ==
  /\ anon_inslot > 0
  /\ anon_inslot' = anon_inslot - 1
  /\ anon_orphans' = anon_orphans + 1
  /\ download_semaphore' = download_semaphore + 1
  /\ UNCHANGED <<req_vars, anon_started, ext_vars>>

\* A thread that outlived its wait_for ends.
download_thread_end ==
  /\ anon_orphans > 0
  /\ anon_orphans' = anon_orphans - 1
  /\ UNCHANGED <<req_vars, download_semaphore, anon_inslot, anon_started, ext_vars>>

NextGov ==
  \/ download_semaphore_acquire
  \/ download_semaphore_release
  \/ download_wait_for_timeout
  \/ download_thread_end

SpecGov == Init /\ [][NextGov]_vars

\* ------------------------------------------------------ transcription slots
main_vars == <<req_vars, download_semaphore, anon_vars, more_vars>>

\* on_convert_action, action 'transcription': the audio is extracted under
\* conversion_semaphore, then transcribe_audio_segments runs in a thread with
\* no semaphore held.
on_convert_action_transcription_start ==
  /\ transcribing["transcription"] < MaxConverts
  /\ transcribing' = [transcribing EXCEPT !["transcription"] = @ + 1]
  /\ UNCHANGED <<main_vars, transcription_semaphore, executor, url_vars, msg_vars>>

on_convert_action_transcription_end ==
  /\ transcribing["transcription"] > 0
  /\ transcribing' = [transcribing EXCEPT !["transcription"] = @ - 1]
  /\ UNCHANGED <<main_vars, transcription_semaphore, executor, url_vars, msg_vars>>

\* on_convert_action, action 'summary': `async with transcription_semaphore:`
\* around the call.
on_convert_action_summary_start ==
  /\ transcribing["summary"] < MaxConverts
  /\ transcription_semaphore > 0
  /\ transcription_semaphore' = transcription_semaphore - 1
  /\ transcribing' = [transcribing EXCEPT !["summary"] = @ + 1]
  /\ UNCHANGED <<main_vars, executor, url_vars, msg_vars>>

on_convert_action_summary_end ==
  /\ transcribing["summary"] > 0
  /\ transcription_semaphore' = transcription_semaphore + 1
  /\ transcribing' = [transcribing EXCEPT !["summary"] = @ - 1]
  /\ UNCHANGED <<main_vars, executor, url_vars, msg_vars>>

min(a, b) == IF a <= b THEN a ELSE b

\* process_voice_batch: every audio file is submitted to an executor of
\* min(len(audio_files), 16) threads; no semaphore is taken.
process_voice_batch_submit ==
  /\ executor = NoExecutor
  /\ \E n \in 1..MaxVoice : executor' = [files |-> n, left |-> n]
  /\ UNCHANGED <<main_vars, transcription_semaphore, transcribing, url_vars, msg_vars>>

\* The threads of the executor that are transcribing a file.
executor_running == min(executor.left, min(executor.files, executor_max_workers))

\* A thread of the executor ends its file (and takes the next one that
\* waits, if there is one); after the last file the executor is shut down.
process_voice_batch_thread_end ==
  /\ executor.left > 0
  /\ executor' = IF executor.left = 1
                 THEN NoExecutor
                 ELSE [executor EXCEPT !.left = @ - 1]
  /\ UNCHANGED <<main_vars, transcription_semaphore, transcribing, url_vars, msg_vars>>

NextTranscribe ==
  \/ on_convert_action_transcription_start
  \/ on_convert_action_transcription_end
  \/ on_convert_action_summary_start
  \/ on_convert_action_summary_end
  \/ process_voice_batch_submit
  \/ process_voice_batch_thread_end

SpecTranscribe == Init /\ [][NextTranscribe]_vars

\* ------------------------------------------------------------ normalize_url
\* A URL string is the sequence of its pieces: an optional scheme "https://",
\* a host, and then delimiters, spaces, text and query parameters.  The
\* delimiters are the characters at which urllib.parse.urlparse cuts.
Scheme == "https://"
Hosts == {"instagram.com", "Instagram.com", "tiktok.com", "youtube.com",
          "soundcloud.com", "example.org"}
Delimiters == {"/", ";", "?", "#", "&"}
Params == {"img_index=1", "igsh=2", "v=1"}
Pieces == Delimiters \cup Params \cup {" ", "a"}

\* Sequences over S of length at most n.
SeqUpTo(S, n) == UNION {[1..k -> S] : k \in 0..n}

\* The URL strings a user can type.
URLStrings ==
  {pre \o <<h>> \o rest : pre \in {<<>>, <<Scheme>>}, h \in Hosts,
                          rest \in SeqUpTo(Pieces, MaxRest)}

\* Index of the first piece of s that is in T, Len(s) + 1 when there is none.
find(s, T) ==
  IF \E i \in 1..Len(s) : s[i] \in T
  THEN CHOOSE i \in 1..Len(s) : s[i] \in T /\ \A j \in 1..(i - 1) : s[j] \notin T
  ELSE Len(s) + 1

\* Index of the last piece of s that is in T, 0 when there is none.
rfind(s, T) ==
  IF \E i \in 1..Len(s) : s[i] \in T
  THEN CHOOSE i \in 1..Len(s) : s[i] \in T /\ \A j \in (i + 1)..Len(s) : s[j] \notin T
  ELSE 0

\* Index of the last piece of s that is not in T, 0 when there is none.
rfind_not(s, T) ==
  IF \E i \in 1..Len(s) : s[i] \notin T
  THEN CHOOSE i \in 1..Len(s) : s[i] \notin T /\ \A j \in (i + 1)..Len(s) : s[j] \in T
  ELSE 0

\* str.rstrip(chars), str.lstrip and str.strip() for whitespace.
rstrip(s, T) == SubSeq(s, 1, rfind_not(s, T))
lstrip(s, T) ==
  IF \E i \in 1..Len(s) : s[i] \notin T
  THEN SubSeq(s, CHOOSE i \in 1..Len(s) : s[i] \notin T /\ \A j \in 1..(i - 1) : s[j] \in T, Len(s))
  ELSE <<>>
strip(s) == lstrip(rstrip(s, {" "}), {" "})

\* urlparse(url): scheme, netloc, path, params, query (the fragment is not
\* used).  Without "//" there is no netloc and the host is part of the path.
urlparse(s) ==
  IF Len(s) = 0 \/ s[1] # Scheme
  THEN [scheme |-> <<>>, netloc |-> <<>>, path |-> SubSeq(s, 1, find(s, {"?", "#"}) - 1),
        params |-> <<>>, query |-> <<>>]
  ELSE LET after == SubSeq(s, 2, Len(s))
           n == find(after, {"/", "?", "#"})
           tail == SubSeq(after, n, Len(after))
           nofrag == SubSeq(tail, 1, find(tail, {"#"}) - 1)
           q == find(nofrag, {"?"})
           fullpath == SubSeq(nofrag, 1, q - 1)
           \* _splitparams: the first ';' after the last '/'
           semi == rfind(fullpath, {"/"}) +
                   find(SubSeq(fullpath, rfind(fullpath, {"/"}) + 1, Len(fullpath)), {";"})
       IN  [scheme |-> <<Scheme>>,
            netloc |-> SubSeq(after, 1, n - 1),
            path   |-> SubSeq(fullpath, 1, semi - 1),
            params |-> SubSeq(fullpath, semi + 1, Len(fullpath)),
            query  |-> SubSeq(nofrag, q + 1, Len(nofrag))]

\* quote_plus of the text that unquoting the piece gives.
quote_plus(t) ==
  CASE t \in {"/", "%2F"} -> "%2F"
    [] t \in {";", "%3B"} -> "%3B"
    [] t \in {"?", "%3F"} -> "%3F"
    [] t \in {" ", "+"} -> "+"
    [] t \in {"img_index=1", "img_index%3D1"} -> "img_index%3D1"
    [] t \in {"igsh=2", "igsh%3D2"} -> "igsh%3D2"
    [] t \in {"v=1", "v%3D1"} -> "v%3D1"
    [] OTHER -> t

\* The fields of a query string, cut at '&'.
RECURSIVE fields(_)
fields(q) ==
  IF q = <<>> THEN <<>>
  ELSE LET i == find(q, {"&"})
       IN  <<SubSeq(q, 1, i - 1)>> \o fields(SubSeq(q, i + 1, Len(q)))

\* urlencode(filtered, doseq=True) of the fields of parse_qs(query) named
\* as the parameter keep: the parameter, and the rest of its value quoted.
\* A field of another name is dropped.
RECURSIVE urlencode(_, _)
urlencode(fs, keep) ==
  IF fs = <<>> THEN <<>>
  ELSE LET f == Head(fs)
           rest == urlencode(Tail(fs), keep)
       IN  IF f # <<>> /\ f[1] = keep
           THEN <<keep>> \o [i \in 1..(Len(f) - 1) |-> quote_plus(f[i + 1])]
                \o (IF rest = <<>> THEN <<>> ELSE <<"&">> \o rest)
           ELSE rest

\* urlunparse((scheme, netloc, path, params, query, '')).
urlunparse(scheme, netloc, url_path, params, query) ==
  LET withparams == IF params = <<>> THEN url_path ELSE url_path \o <<";">> \o params
      rooted == IF netloc # <<>> /\ withparams # <<>> /\ withparams[1] # "/"
                THEN <<"/">> \o withparams
                ELSE withparams
  IN  scheme \o netloc \o rooted \o (IF query = <<>> THEN <<>> ELSE <<"?">> \o query)

\* `platform in parsed.netloc`: the netloc has the platform's name in it, in
\* these letters.
in_netloc(platform, netloc) == \E i \in 1..Len(netloc) : netloc[i] = platform

\* normalize_url.
normalize_url(u) ==
  LET s == strip(u)
      parsed == urlparse(s)
      url_path == rstrip(parsed.path, {"/"})
  IN  IF in_netloc("instagram.com", parsed.netloc)
      THEN urlunparse(parsed.scheme, parsed.netloc, url_path, parsed.params,
                      urlencode(fields(parsed.query), "img_index=1"))
      ELSE IF in_netloc("tiktok.com", parsed.netloc)
      THEN urlunparse(parsed.scheme, parsed.netloc, url_path, parsed.params, <<>>)
      ELSE IF in_netloc("youtube.com", parsed.netloc)
      THEN urlunparse(parsed.scheme, parsed.netloc, url_path, parsed.params,
                      urlencode(fields(parsed.query), "v=1"))
      ELSE IF in_netloc("soundcloud.com", parsed.netloc)
      THEN urlunparse(parsed.scheme, parsed.netloc, url_path, parsed.params, <<>>)
      ELSE s

\* The names of SUPPORTED_PLATFORMS, as is_supported_url looks for them in
\* the lowered url.
SUPPORTED_PLATFORMS == {"instagram.com", "tiktok.com", "youtube.com", "soundcloud.com"}

\* A link as the platforms hand it out: scheme, host in small letters, a
\* path of '/' and text, and possibly a query of parameters.
is_plain_url(u) ==
  /\ Len(u) >= 2 /\ u[1] = Scheme /\ u[2] \in SUPPORTED_PLATFORMS
  /\ LET rest == SubSeq(u, 3, Len(u))
         q == find(rest, {"?"})
     IN  /\ \A i \in 1..Len(rest) : i < q => rest[i] \in {"/", "a"}
         /\ \A i \in 1..Len(rest) : i > q => rest[i] \in Params \cup {"&"}
         /\ q > 1 => rest[1] = "/"

\* The same link with a tracking parameter added.
with_tracking(u) ==
  IF \E i \in 1..Len(u) : u[i] = "?" THEN u \o <<"&", "igsh=2">> ELSE u \o <<"?", "igsh=2">>

\* The same link with a slash at the end of its path.
with_slash(u) ==
  LET q == find(u, {"?"}) IN SubSeq(u, 1, q - 1) \o <<"/">> \o SubSeq(u, q, Len(u))

\* The same link with capital letters in the host.
capitalized(h) ==
  CASE h = "instagram.com" -> "Instagram.com"
    [] h = "tiktok.com" -> "TikTok.com"
    [] h = "youtube.com" -> "YouTube.com"
    [] h = "soundcloud.com" -> "SoundCloud.com"
    [] OTHER -> h
with_capitals(u) == [u EXCEPT ![2] = capitalized(u[2])]

\* The same link without its scheme (URL_PATTERN finds such links too).
without_scheme(u) == Tail(u)

Variations == {"tracking", "slash", "capitals", "scheme"}
varied(u, how) ==
  CASE how = "tracking" -> with_tracking(u)
    [] how = "slash" -> with_slash(u)
    [] how = "capitals" -> with_capitals(u)
    [] how = "scheme" -> without_scheme(u)

other_vars == <<main_vars, tr_vars, msg_vars>>

\* A link arrives.
normalize_url_input ==
  /\ url_pc = "none"
  /\ url' \in URLStrings
  /\ url_pc' = "input"
  /\ UNCHANGED <<other_vars, url_n, url_nn, url_b, url_bn>>

\* Its key is computed.
normalize_url_call ==
  /\ url_pc = "input"
  /\ url_n' = normalize_url(url)
  /\ url_pc' = "normalized"
  /\ UNCHANGED <<other_vars, url, url_nn, url_b, url_bn>>

\* The key comes back as a link and its key is computed.
normalize_url_again ==
  /\ url_pc = "normalized"
  /\ url_nn' = normalize_url(url_n)
  /\ url_pc' = "renormalized"
  /\ UNCHANGED <<other_vars, url, url_n, url_b, url_bn>>

\* The same link arrives in another spelling and its key is computed.
normalize_url_varied ==
  /\ url_pc = "normalized"
  /\ is_plain_url(url)
  /\ \E how \in Variations :
       /\ url_b' = varied(url, how)
       /\ url_bn' = normalize_url(varied(url, how))
  /\ url_pc' = "compared"
  /\ UNCHANGED <<other_vars, url, url_n, url_nn>>

NextURL ==
  \/ normalize_url_input
  \/ normalize_url_call
  \/ normalize_url_again
  \/ normalize_url_varied

SpecURL == Init /\ [][NextURL]_vars

\* ------------------------------------------------------------ handle_message
\* str.lower() of a piece.
lower(t) ==
  CASE t = "Instagram.com" -> "instagram.com"
    [] t = "TikTok.com" -> "tiktok.com"
    [] t = "YouTube.com" -> "youtube.com"
    [] t = "SoundCloud.com" -> "soundcloud.com"
    [] OTHER -> t

\* is_supported_url: the lowered url has the name of a platform in it.
is_supported_url(u) == \E i \in 1..Len(u) : lower(u[i]) \in SUPPORTED_PLATFORMS

\* A link to the bot itself: t.me/<bot_username>.
BotLink == "t.me/bot"
is_bot_link(u) == \E i \in 1..Len(u) : lower(u[i]) = BotLink

\* The links of the messages of SpecMessage: three spellings of one tiktok
\* link, a youtube link, a link of an unsupported host, a link to the bot.
MsgURLs ==
  { <<Scheme, "tiktok.com", "/", "a">>,
    <<Scheme, "tiktok.com", "/", "a", "/">>,
    <<"tiktok.com", "/", "a">>,
    <<Scheme, "youtube.com", "/", "a">>,
    <<Scheme, "example.org", "/", "a">>,
    <<Scheme, BotLink>> }

\* 'https://' is put before a link that has no protocol.
with_scheme(u) == IF u # <<>> /\ u[1] = Scheme THEN u ELSE <<Scheme>> \o u

\* filtered_urls and unsupported_urls of handle_message.
filtered_urls(urls) == SelectSeq(urls, LAMBDA u : ~is_bot_link(u) /\ is_supported_url(u))
unsupported_urls(urls) == SelectSeq(urls, LAMBDA u : ~is_bot_link(u) /\ ~is_supported_url(u))

\* unique_urls: the first link of every normalize_url value.
RECURSIVE unique_urls(_, _)
unique_urls(urls, seen_normalized) ==
  IF urls = <<>> THEN <<>>
  ELSE LET norm == normalize_url(Head(urls))
       IN  IF norm \in seen_normalized
           THEN unique_urls(Tail(urls), seen_normalized)
           ELSE <<Head(urls)>> \o unique_urls(Tail(urls), seen_normalized \cup {norm})

url_side_vars == <<main_vars, tr_vars, url_vars>>

\* handle_message for a text message in which URL_PATTERN finds the links
\* found: up to the creation of the tasks.
handle_message ==
  /\ msg_pc = "none"
  /\ \E found \in SeqUpTo(MsgURLs, MaxURLs) : \E private, sent \in BOOLEAN :
       LET urls == [i \in 1..Len(found) |-> with_scheme(found[i])] IN
       /\ msg_urls' = found
       /\ IF found = <<>>
          THEN \* no link: the user is asked for one
               /\ msg_replies' = <<"send a link">>
               /\ msg_pc' = "done"
               /\ UNCHANGED <<tasks, task_pc, status_message>>
          ELSE IF unsupported_urls(urls) # <<>>
          THEN /\ msg_replies' = <<"supported platforms">>
               /\ msg_pc' = "done"
               /\ UNCHANGED <<tasks, task_pc, status_message>>
          ELSE IF filtered_urls(urls) = <<>>
          THEN /\ msg_pc' = "done"
               /\ UNCHANGED <<msg_replies, tasks, task_pc, status_message>>
          ELSE /\ tasks' = unique_urls(filtered_urls(urls), {})
               /\ task_pc' = [i \in 1..Len(unique_urls(filtered_urls(urls), {})) |-> "body"]
               /\ status_message' = (private /\ sent)
               /\ msg_replies' = IF private /\ sent THEN <<"status">> ELSE <<>>
               /\ msg_pc' = "gather"
  /\ UNCHANGED <<url_side_vars, status_deleted_flag, delete_calls>>

\* delete_status_message_safe up to its await: the flag is tested and
\* status_message.delete() is called.
delete_status_message_safe_call(i, at, site, after) ==
  /\ msg_pc = "gather"
  /\ i \in 1..Len(task_pc) /\ task_pc[i] = at
  /\ IF status_message /\ ~status_deleted_flag
     THEN /\ delete_calls' = delete_calls + 1
          /\ task_pc' = [task_pc EXCEPT ![i] = site]
     ELSE /\ task_pc' = [task_pc EXCEPT ![i] = after]
          /\ UNCHANGED delete_calls
  /\ UNCHANGED <<url_side_vars, msg_pc, msg_urls, msg_replies, tasks,
                 status_message, status_deleted_flag>>

\* status_message.delete() returns and the flag is set, or it raises and the
\* exception is logged.
delete_status_message_safe_return(i, site, after) ==
  /\ i \in 1..Len(task_pc) /\ task_pc[i] = site
  /\ \E ok \in BOOLEAN :
       status_deleted_flag' = (status_deleted_flag \/ ok)
  /\ task_pc' = [task_pc EXCEPT ![i] = after]
  /\ UNCHANGED <<url_side_vars, msg_pc, msg_urls, msg_replies, tasks,
                 status_message, delete_calls>>

\* process_single_url returns before its try block (unsupported link, cache
\* hit, result of a joined download): the status message is deleted.
process_single_url_return(i) ==
  delete_status_message_safe_call(i, "body", "return_delete", "done")
process_single_url_return_deleted(i) ==
  delete_status_message_safe_return(i, "return_delete", "done")

\* process_single_url leaves its try block through one of its exits, which
\* deletes the status message; then its finally block does so again.
process_single_url_exit(i) ==
  delete_status_message_safe_call(i, "body", "exit_delete", "finally")
process_single_url_exit_deleted(i) ==
  delete_status_message_safe_return(i, "exit_delete", "finally")
process_single_url_finally(i) ==
  delete_status_message_safe_call(i, "finally", "finally_delete", "done")
process_single_url_finally_deleted(i) ==
  delete_status_message_safe_return(i, "finally_delete", "done")

\* An exception leaves process_single_url (raised before its try block, or
\* in its handlers): the task ends with it.
process_single_url_raise(i) ==
  /\ msg_pc = "gather"
  /\ i \in 1..Len(task_pc) /\ task_pc[i] \in {"body", "finally"}
  /\ task_pc' = [task_pc EXCEPT ![i] = "raised"]
  /\ UNCHANGED <<url_side_vars, msg_pc, msg_urls, msg_replies, tasks,
                 status_message, status_deleted_flag, delete_calls>>

\* asyncio.gather(*tasks, return_exceptions=True) returns when every task
\* has ended.
handle_message_gathered ==
  /\ msg_pc = "gather"
  /\ \A i \in 1..Len(task_pc) : task_pc[i] \in {"done", "raised"}
  /\ msg_pc' = "done"
  /\ UNCHANGED <<url_side_vars, msg_urls, msg_replies, tasks, task_pc,
                 status_message, status_deleted_flag, delete_calls>>

NextMessage ==
  \/ handle_message
  \/ handle_message_gathered
  \/ \E i \in 1..MaxURLs :
       \/ process_single_url_return(i)
       \/ process_single_url_return_deleted(i)
       \/ process_single_url_exit(i)
       \/ process_single_url_exit_deleted(i)
       \/ process_single_url_finally(i)
       \/ process_single_url_finally_deleted(i)
       \/ process_single_url_raise(i)

SpecMessage == Init /\ [][NextMessage]_vars

\* ------------------------------------------------------ file_cache (sqlite)
\* The bot and the Flask API each open their own connection to the same
\* database file.
Connections == {"bot", "api"}
\* Transport-assigned file ids (base64url strings).
FileIds == {"p1", "v1"}
\* The media type a caller passes to save_file_to_cache.
MediaTypes == {"photo", "video"}
\* Canonical URLs used as cache keys.
CacheURLs == {"u1", "u2"}
\* Every call site passes a non-empty list of file ids, one id per file sent.
IdLists ==
  {ids \in SeqUpTo(FileIds, MaxFiles) \ {<<>>} :
     \A i, j \in 1..Len(ids) : ids[i] = ids[j] => i = j}
NoCall == [url |-> "none", file_ids |-> <<>>, kind |-> "none", file_id_str |-> <<>>,
           media_type |-> "none", existing |-> 0]
\* None, as returned by get_cached_file.
NoResult == [file_ids |-> <<>>, media_type |-> "none"]
\* No get_cached_file has returned since the latest call began.
NoGet == [url |-> "none", result |-> NoResult]

\* json.dumps of a list of strings, as the sequence of its tokens.
RECURSIVE json_items(_)
json_items(ids) ==
  IF ids = <<>> THEN <<>>
  ELSE <<"\"", Head(ids), "\"">>
         \o (IF Len(ids) > 1 THEN <<", ">> ELSE <<>>)
         \o json_items(Tail(ids))

json_dumps(ids) == <<"[">> \o json_items(ids) \o <<"]">>

JsonSyntax == {"[", "]", "\"", ", ", ","}

\* The elements between the brackets of a JSON array of strings.
RECURSIVE json_elements(_)
json_elements(s) ==
  IF Len(s) >= 3 /\ s[1] = "\"" /\ s[2] \notin JsonSyntax /\ s[3] = "\""
  THEN IF Len(s) = 3 THEN [ok |-> TRUE, value |-> <<s[2]>>]
       ELSE IF Len(s) > 4 /\ s[4] \in {", ", ","}
            THEN LET rest == json_elements(SubSeq(s, 5, Len(s)))
                 IN  [ok |-> rest.ok, value |-> <<s[2]>> \o rest.value]
            ELSE [ok |-> FALSE, value |-> <<>>]
  ELSE [ok |-> FALSE, value |-> <<>>]

\* json.loads: an array of strings, a single string, or a ValueError.
json_loads(s) ==
  IF Len(s) >= 2 /\ s[1] = "[" /\ s[Len(s)] = "]"
  THEN IF Len(s) = 2 THEN [ok |-> TRUE, list |-> TRUE, value |-> <<>>]
       ELSE LET e == json_elements(SubSeq(s, 2, Len(s) - 1))
            IN  [ok |-> e.ok, list |-> TRUE, value |-> e.value]
  ELSE IF Len(s) = 3 /\ json_elements(s).ok
       THEN [ok |-> TRUE, list |-> FALSE, value |-> s[2]]
       ELSE [ok |-> FALSE, list |-> FALSE, value |-> <<>>]

\* SELECT ... FROM file_cache WHERE url = ?
rows_of(u) == {row \in file_cache : row.url = u}

\* What get_cached_file returns for the table as it is.
get_cached_file_result(u) ==
  IF rows_of(u) = {} THEN NoResult
  ELSE LET result == CHOOSE row \in rows_of(u) : TRUE
           file_ids == json_loads(result.file_id)
       IN  [file_ids   |-> IF file_ids.ok
                           THEN IF file_ids.list THEN file_ids.value
                                                 ELSE <<file_ids.value>>
                           ELSE <<result.file_id>>,
            media_type |-> result.media_type]

\* A table whose column url is not UNIQUE accepts every INSERT.
url_not_unique(u) == TRUE

\* url TEXT UNIQUE: an INSERT goes through when no row has the url.
url_unique(u) == rows_of(u) = {}

\* A media type stored as the caller gave it.
media_type_as_given(file_ids, media_type) == media_type

\* if len(file_ids) > 1: media_type = 'carousel'
media_type_stored(file_ids, media_type) ==
  IF Len(file_ids) > 1 THEN "carousel" ELSE media_type

not_store_vars == <<req_vars, download_semaphore, anon_vars, tr_vars, url_vars, msg_vars,
                    batch_vars, timer_vars, late_vars>>

\* get_cached_file: one SELECT and the decoding of its row.
Database_get_cached_file(c, u) ==
  /\ conn_pc[c] = "idle"
  /\ got' = [url |-> u, result |-> get_cached_file_result(u)]
  /\ UNCHANGED <<not_store_vars, file_cache, sqlite_sequence, conn_pc, conn_call,
                 last_saved, first_id, save_calls, integrity_errors>>

\* save_file_to_cache up to its SELECT: the list is encoded, the media type
\* is coerced and the row of the url is looked up.
save_file_to_cache_select(c, u, file_ids, media_type) ==
  /\ conn_pc[c] = "idle"
  /\ save_calls < MaxSaves
  /\ save_calls' = save_calls + 1
  /\ conn_call' = [conn_call EXCEPT ![c] =
       [url         |-> u,
        file_ids    |-> file_ids,
        kind        |-> media_type,
        file_id_str |-> json_dumps(file_ids),
        media_type  |-> media_type_stored(file_ids, media_type),
        existing    |-> IF rows_of(u) = {} THEN 0
                        ELSE (CHOOSE row \in rows_of(u) : TRUE).id]]
  /\ conn_pc' = [conn_pc EXCEPT ![c] = "selected"]
  /\ got' = NoGet
  /\ UNCHANGED <<not_store_vars, file_cache, sqlite_sequence, last_saved, first_id,
                 integrity_errors>>

\* The arguments of the call of connection c.
arguments(c) == [file_ids |-> conn_call[c].file_ids, media_type |-> conn_call[c].kind]

\* The row written by the call of connection c, with the given id.
written_row(c, id) ==
  [id |-> id, url |-> conn_call[c].url, file_id |-> conn_call[c].file_id_str,
   media_type |-> conn_call[c].media_type]

\* existing: UPDATE ... WHERE id = cache_id, commit, return cache_id.
save_file_to_cache_update(c) ==
  /\ conn_pc[c] = "selected"
  /\ conn_call[c].existing # 0
  /\ file_cache' = {IF row.id = conn_call[c].existing
                    THEN [written_row(c, row.id) EXCEPT !.url = row.url]
                    ELSE row : row \in file_cache}
  /\ last_saved' = [last_saved EXCEPT ![conn_call[c].url] = arguments(c)]
  /\ conn_pc' = [conn_pc EXCEPT ![c] = "idle"]
  /\ conn_call' = [conn_call EXCEPT ![c] = NoCall]
  /\ UNCHANGED <<not_store_vars, sqlite_sequence, got, first_id, save_calls,
                 integrity_errors>>

\* not existing: INSERT, cache_id = lastrowid, commit, return cache_id.
save_file_to_cache_insert(c) ==
  /\ conn_pc[c] = "selected"
  /\ conn_call[c].existing = 0
  /\ url_unique(conn_call[c].url)
  /\ sqlite_sequence' = sqlite_sequence + 1
  /\ file_cache' = file_cache \cup {written_row(c, sqlite_sequence')}
  /\ last_saved' = [last_saved EXCEPT ![conn_call[c].url] = arguments(c)]
  /\ first_id' = [first_id EXCEPT ![conn_call[c].url] = sqlite_sequence']
  /\ conn_pc' = [conn_pc EXCEPT ![c] = "idle"]
  /\ conn_call' = [conn_call EXCEPT ![c] = NoCall]
  /\ UNCHANGED <<not_store_vars, got, save_calls, integrity_errors>>

\* not existing, but the other connection has inserted the url since the
\* SELECT: url is UNIQUE, INSERT raises, the except branch returns None.
save_file_to_cache_insert_raises(c) ==
  /\ conn_pc[c] = "selected"
  /\ conn_call[c].existing = 0
  /\ ~url_unique(conn_call[c].url)
  /\ integrity_errors' = integrity_errors + 1
  /\ conn_pc' = [conn_pc EXCEPT ![c] = "idle"]
  /\ conn_call' = [conn_call EXCEPT ![c] = NoCall]
  /\ UNCHANGED <<not_store_vars, file_cache, sqlite_sequence, got, last_saved, first_id,
                 save_calls>>

NextCache ==
  \E c \in Connections :
    \/ \E u \in CacheURLs : Database_get_cached_file(c, u)
    \/ \E u \in CacheURLs, file_ids \in IdLists, media_type \in MediaTypes :
         save_file_to_cache_select(c, u, file_ids, media_type)
    \/ save_file_to_cache_update(c)
    \/ save_file_to_cache_insert(c)
    \/ save_file_to_cache_insert_raises(c)

SpecCache == Init /\ [][NextCache]_vars

\* ------------------------------------------------------------- voice batches
\* The buffer of one user: user_message_batches[user_id] and
\* batch_timers[user_id].  A message is its message_id.

\* A future whose thread is still running.
NotDone == [done |-> FALSE, text |-> <<>>]
\* The empty transcript: nothing recognized, or transcription raised.
EmptyText == <<>>
\* The text transcribe_audio_segments recognizes in the file of message m.
transcript(m) == <<"text of", m>>
\* Nothing has been published for the batch.
NoPublication == <<>>

\* list.sort(key=lambda msg: msg.message_id)
RECURSIVE insert_sorted(_, _)
insert_sorted(m, s) ==
  IF s = <<>> THEN <<m>>
  ELSE IF m <= Head(s) THEN <<m>> \o s
       ELSE <<Head(s)>> \o insert_sorted(m, Tail(s))

RECURSIVE sort_by_message_id(_)
sort_by_message_id(s) ==
  IF s = <<>> THEN <<>> ELSE insert_sorted(Head(s), sort_by_message_id(Tail(s)))

not_batch_vars == <<req_vars, download_semaphore, anon_vars, tr_vars, url_vars,
                    msg_vars, store_vars, late_vars>>

process_voice_batch_vars == <<voice_pc, messages, voice_messages, futures, completed,
                              transcribed_texts, combined_text>>

\* add_message_to_batch for a voice or video-note message: the message is
\* appended, the timer of the user is cancelled and a new Timer(BATCH_TIMEOUT)
\* is started.  This branch does not look at BATCH_MAX_SIZE.
add_message_to_batch(m) ==
  /\ m \notin arrived
  /\ arrived' = arrived \cup {m}
  /\ user_message_batches' = Append(user_message_batches, m)
  /\ batch_timers' = "pending"
  /\ timers_pending' = (IF batch_timers = "pending" THEN timers_pending - 1
                                                    ELSE timers_pending) + 1
  /\ since_arrival' = 0
  /\ UNCHANGED <<not_batch_vars, scheduled, process_voice_batch_vars>>

\* The timer thread has waited its interval and was not cancelled:
\* run_process_batch schedules process_batch on the main loop.  The timer was
\* started by the latest add_message_to_batch, timeout is the time it waits.
run_process_batch_after(timeout) ==
  /\ batch_timers = "pending"
  /\ since_arrival >= timeout
  /\ scheduled < MaxScheduled
  /\ batch_timers' = "fired"
  /\ timers_pending' = timers_pending - 1
  /\ scheduled' = scheduled + 1
  /\ UNCHANGED <<not_batch_vars, since_arrival, arrived, user_message_batches,
                 process_voice_batch_vars>>

\* The expiry of the timer where time is not followed.
run_process_batch == run_process_batch_after(0)

\* The expiry of the timer, BATCH_TIMEOUT after it was started.
run_process_batch_timer == run_process_batch_after(BATCH_TIMEOUT)

\* A tenth of a second passes.
time_passes ==
  /\ since_arrival < BATCH_TIMEOUT
  /\ since_arrival' = since_arrival + 1
  /\ UNCHANGED <<not_batch_vars, batch_vars, timers_pending>>

\* process_batch without the line user_message_batches[user_id] = []: the copy
\* is processed and the buffer keeps its messages.
process_batch_without_clear ==
  /\ scheduled > 0
  /\ scheduled' = scheduled - 1
  /\ IF user_message_batches = <<>>
     THEN UNCHANGED <<user_message_batches, batch_timers, timers_pending,
                      process_voice_batch_vars>>
     ELSE /\ UNCHANGED user_message_batches
          /\ batch_timers' = "none"
          /\ timers_pending' = IF batch_timers = "pending" THEN timers_pending - 1
                                                           ELSE timers_pending
          /\ messages' = user_message_batches
          /\ voice_messages' = sort_by_message_id(user_message_batches)
          /\ voice_pc' = "files"
          /\ futures' = <<>> /\ completed' = <<>> /\ transcribed_texts' = <<>>
          /\ combined_text' = NoPublication
  /\ UNCHANGED <<not_batch_vars, since_arrival, arrived>>

\* process_batch: takes the buffer, clears it, cancels and forgets the timer,
\* sorts the voice messages by message_id and calls process_voice_batch.
process_batch ==
  /\ scheduled > 0
  /\ scheduled' = scheduled - 1
  /\ IF user_message_batches = <<>>
     THEN UNCHANGED <<user_message_batches, batch_timers, timers_pending,
                      process_voice_batch_vars>>
     ELSE /\ user_message_batches' = <<>>
          /\ batch_timers' = "none"
          /\ timers_pending' = IF batch_timers = "pending" THEN timers_pending - 1
                                                           ELSE timers_pending
          /\ messages' = user_message_batches
          /\ voice_messages' = sort_by_message_id(user_message_batches)
          /\ voice_pc' = "files"
          /\ futures' = <<>> /\ completed' = <<>> /\ transcribed_texts' = <<>>
          /\ combined_text' = NoPublication
  /\ UNCHANGED <<not_batch_vars, since_arrival, arrived>>

\* process_voice_batch up to executor.submit: the files are downloaded and
\* converted one after the other, audio_files[i] is the file of
\* voice_messages[i]; one future is submitted per file.
process_voice_batch_files ==
  /\ voice_pc = "files"
  /\ voice_pc' = "transcribing"
  /\ futures' = [i \in 1..Len(voice_messages) |-> NotDone]
  /\ UNCHANGED <<not_batch_vars, timer_vars, arrived, user_message_batches, batch_timers,
                 scheduled,
                 messages, voice_messages, completed, transcribed_texts, combined_text>>

\* A download or a conversion raises: the except branch reports the error,
\* nothing is published.
process_voice_batch_files_raise ==
  /\ voice_pc = "files"
  /\ voice_pc' = "failed"
  /\ UNCHANGED <<not_batch_vars, timer_vars, arrived, user_message_batches, batch_timers,
                 scheduled,
                 messages, voice_messages, futures, completed, transcribed_texts, combined_text>>

\* A worker thread ends transcribe_audio_segments for the file of index i.
transcribe_audio_segments_end(i, recognized) ==
  /\ voice_pc = "transcribing"
  /\ i \in 1..Len(futures)
  /\ ~futures[i].done
  /\ futures' = [futures EXCEPT ![i] =
       [done |-> TRUE,
        text |-> IF recognized THEN transcript(voice_messages[i]) ELSE EmptyText]]
  /\ completed' = Append(completed, i)
  /\ UNCHANGED <<not_batch_vars, timer_vars, arrived, user_message_batches, batch_timers,
                 scheduled,
                 voice_pc, messages, voice_messages, transcribed_texts, combined_text>>

\* Results stored in the order in which the futures completed.
results_as_completed(results, order) ==
  [i \in 1..Len(results) |-> results[order[i]].text]

\* transcribed_texts[future_to_index[future]] = future.result()
results_by_index(results, order) == [i \in 1..Len(results) |-> results[i].text]

\* The sections of combined_text: one per non-empty text, labelled i + 1 for
\* the (0-based) index i of the message in voice_messages.
sections(texts) ==
  SelectSeq([i \in 1..Len(texts) |-> [label |-> i, text |-> texts[i]]],
            LAMBDA section : section.text # EmptyText)

\* All futures have ended: the results are collected, combined and sent.
process_voice_batch_combine ==
  /\ voice_pc = "transcribing"
  /\ \A i \in 1..Len(futures) : futures[i].done
  /\ transcribed_texts' = results_by_index(futures, completed)
  /\ IF sections(transcribed_texts') = <<>>
     THEN voice_pc' = "failed" /\ combined_text' = NoPublication
     ELSE voice_pc' = "published" /\ combined_text' = sections(transcribed_texts')
  /\ UNCHANGED <<not_batch_vars, timer_vars, arrived, user_message_batches, batch_timers,
                 scheduled,
                 messages, voice_messages, futures, completed>>

\* The buffer and its timer; messages arrive in the order of their ids.
NextBatch ==
  \/ \E m \in {Cardinality(arrived) + 1} \cap (1..MaxMessages) : add_message_to_batch(m)
  \/ run_process_batch
  \/ process_batch

SpecBatch == Init /\ [][NextBatch]_vars

\* A few messages, arriving in any order, and the processing of their batches.
NextVoice ==
  \/ \E m \in 1..MaxShuffled : add_message_to_batch(m)
  \/ run_process_batch
  \/ process_batch
  \/ process_voice_batch_files
  \/ process_voice_batch_files_raise
  \/ \E i \in 1..MaxShuffled, recognized \in BOOLEAN : transcribe_audio_segments_end(i, recognized)
  \/ process_voice_batch_combine

SpecVoice == Init /\ [][NextVoice]_vars

\* The buffer and its timer with the time between the arrivals.
NextDebounce ==
  \/ \E m \in {Cardinality(arrived) + 1} \cap (1..MaxShuffled) : add_message_to_batch(m)
  \/ time_passes
  \/ run_process_batch_timer
  \/ process_batch

SpecDebounce == Init /\ [][NextDebounce]_vars

\* ================================================================== claims

\* C1: for every normalized url at most one extraction is in flight: no two
\* requests for the same url have their download thread running (inside
\* their wait_for) at the same time.
C1_OneExtractionPerKey ==
  \A r1, r2 \in Reqs :
    r1 # r2 /\ worker[r1] = "running" /\ worker[r2] = "running" => key[r1] # key[r2]

\* A follower's wait on a pending future runs out in this step.
follower_timeout_step(r) ==
  \/ pc[r] = "follow" /\ promise[joined[r]].st = "pending" /\ pc'[r] = "retry"
  \/ hpc[r] = "follow" /\ promise[joined[r]].st = "pending" /\ hpc'[r] = "answered"

\* C2: when a follower's deadline expires (8 s inline, 300 s message) the
\* shared future is still pending and not cancelled after the step.
C2_FollowerTimeoutKeepsPromise ==
  [][\A r \in Reqs : follower_timeout_step(r) => promise'[joined[r]] = Pending]_vars

\* C3: a leader that has left its coroutine has resolved the future it
\* installed (the finite-run form of "every installed future is eventually
\* resolved on every exit path").
C3_LeaderExitResolves ==
  \A r \in Reqs : pc[r] = "done" => promise[r].st # "pending"

\* C4: every future is resolved at most once: no set_result or cancel is
\* applied to a future that already holds a result or is cancelled.
C4_ResolvedOnce ==
  \A r \in Reqs : attempts[r] <= 1

\* C5: once a future holds its result and its leader has finished, the
\* registry no longer holds that future under the url.
C5_EntryRemoved ==
  \A r \in Reqs :
    pc[r] = "done" /\ promise[r].st = "result" => active_downloads[key[r]] # r

\* A request that waited on a pending future: a message request, or an
\* inline request whose handler waited (and started no task of its own).
waited_on_pending(r) == joined[r] # NoReq /\ (path[r] = "msg" \/ pc[r] = "notask")

\* The transport ids the requester got: sent to the chat, or shown as
\* the inline answer.
received(r) == IF path[r] = "msg" THEN delivered[r] ELSE answer[r].ids

\* C6: when a request joined the pending future of a leader that harvested
\* ids, and both have finished and the request got ids, it got the list the
\* leader harvested, which is the list of the cache row of the url.
C6_SameIdsForBoth ==
  \A r \in Reqs :
    /\ waited_on_pending(r)
    /\ pc[r] = "done" \/ hpc[r] = "answered"
    /\ received(r) # <<>>
    /\ pc[joined[r]] = "done"
    /\ delivered[joined[r]] # <<>>
    => /\ received(r) = delivered[joined[r]]
       /\ cache[key[r]].ids = delivered[joined[r]]

\* An inline wait (10 s on the own task, 8 s on a joined future) runs out in
\* this step.
inline_timeout_step(r) ==
  \/ /\ hpc[r] = "wait_task"
     /\ pc[r] \notin {"done", "done_joined", "aborted"}
     /\ hpc'[r] # "wait_task"
  \/ /\ hpc[r] = "follow"
     /\ promise[joined[r]].st = "pending"
     /\ hpc'[r] # "follow"

\* C7: when the inline answer budget runs out the query is answered with an
\* empty list and no download task is cancelled or otherwise touched by that
\* step; a running inline download task is never aborted, so it goes on to
\* its upload and its cache write.
C7_InlineTimeoutKeepsDownload ==
  [][\A r \in Reqs :
       /\ inline_timeout_step(r) =>
            /\ answer'[r] = [st |-> "empty", ids |-> <<>>]
            /\ pc' = pc
            /\ worker' = worker
            /\ cache' = cache
            /\ active_downloads' = active_downloads
       /\ path[r] = "inline" /\ pc[r] \in {"extracting", "uploading", "fulfil"}
            => pc'[r] \in {"extracting", "uploading", "fulfil", "done"}]_vars

\* The query was answered empty after 10 s and the task went on to upload
\* and to write the row.
C7_Witness ==
  \E r \in Reqs :
    /\ path[r] = "inline"
    /\ answer[r].st = "empty"
    /\ pc[r] = "done"
    /\ delivered[r] # <<>>
    /\ cache[key[r]].ids = delivered[r]

\* The request ends its upload in this step.
upload_step(r) == pc[r] = "uploading" /\ pc'[r] # "uploading"

cache_hit_frame(r) ==
  /\ promise' = promise
  /\ active_downloads' = active_downloads
  /\ download_semaphore' = download_semaphore
  /\ worker' = worker
  /\ pc'[r] \in {"done", "notask"}

\* The request is served in its first step from the row of url k.
served_from(r, k) ==
  IF path'[r] = "msg"
  THEN delivered'[r] \in {cache[k].ids, <<>>}
  ELSE answer'[r] = [st |-> "results", ids |-> cache[k].ids]

\* The row of the request's own normalized url is found.
direct_hit_step(r) == pc[r] = "idle" /\ pc'[r] # "idle" /\ cache[key'[r]] # NoRow

\* A row is found for the request: under its own url or, on the inline path,
\* under the url of the unexpanded link.
cache_hit_step(r) ==
  \/ direct_hit_step(r)
  \/ pc[r] = "idle" /\ path'[r] = "inline" /\ answer'[r].st = "results"

running_extractions ==
  anon_inslot + anon_orphans + Cardinality({r \in Reqs : worker[r] # "none"})

\* C10: at most MAX_CONCURRENT_DOWNLOADS download threads are executing,
\* counting those whose 600 s wait has timed out.
C10_AtMostTenExtractions == running_extractions <= MAX_CONCURRENT_DOWNLOADS

\* Calls of transcribe_audio_segments that are running.
running_transcriptions ==
  transcribing["transcription"] + transcribing["summary"] + executor_running

\* C11: at most MAX_CONCURRENT_TRANSCRIPTIONS transcriptions run at any
\* instant, whichever path started them.
C11_AtMostEightTranscriptions == running_transcriptions <= MAX_CONCURRENT_TRANSCRIPTIONS

\* C15: normalize_url is idempotent: the key of a key is the key itself.
C15_Idempotent == url_pc = "renormalized" => url_nn = url_n

\* C16: two links of a supported host that differ only in a tracking
\* parameter, a slash at the end of the path, the case of the host letters or
\* the absence of the scheme have the same key.
C16_SameKey == url_pc = "compared" => url_bn = url_n

\* C12: status_message.delete() is called at most once for the placeholder
\* of a message, over all its tasks and all their exits.
C12_DeletedAtMostOnce == delete_calls <= 1

\* The links of the message that are of a supported platform, and their
\* canonical forms.
supported_links == filtered_urls([i \in 1..Len(msg_urls) |-> with_scheme(msg_urls[i])])
canonical_forms(urls) == {normalize_url(urls[i]) : i \in 1..Len(urls)}

\* C13: for a message with several links one task is created for every
\* distinct canonical form and no more, all of them before any of them runs;
\* handle_message ends only when all of them have ended, and a task that
\* ends with an exception changes nothing for the others.
C13_OneTaskPerCanonicalForm ==
  [][/\ msg_pc = "none" /\ msg_pc' # "none" /\ Len(msg_urls') > 1 =>
          /\ canonical_forms(tasks') = canonical_forms(supported_links')
          /\ Len(tasks') = Cardinality(canonical_forms(supported_links'))
          /\ \A i \in 1..Len(tasks') : task_pc'[i] = "body"
     /\ msg_pc' = "done" => \A i \in 1..Len(task_pc') : task_pc'[i] \in {"done", "raised"}
     /\ \A i \in 1..Len(task_pc) :
          task_pc[i] # "raised" /\ task_pc'[i] = "raised" =>
            /\ msg_pc' = msg_pc
            /\ \A j \in 1..Len(task_pc) : j # i => task_pc'[j] = task_pc[j]]_vars

\* C14: a link of an unsupported host in a message gets no reply, and the
\* supported links of the same message are processed.
C14_UnsupportedSkipped ==
  msg_pc = "done" /\ unsupported_urls(msg_urls) # <<>> =>
    /\ \A i \in 1..Len(msg_replies) : msg_replies[i] # "supported platforms"
    /\ canonical_forms(tasks) = canonical_forms(supported_links)

\* What the latest written save_file_to_cache(u, file_ids, media_type) makes
\* of its arguments: the list as it is, the media type coerced.
coerce(call) ==
  IF call = NoResult THEN NoResult
  ELSE [file_ids   |-> call.file_ids,
        media_type |-> IF Len(call.file_ids) > 1 THEN "carousel" ELSE call.media_type]

C18_OneRowPerURL ==
  \A u \in CacheURLs :
    /\ Cardinality(rows_of(u)) <= 1
    /\ first_id[u] # 0 => \E row \in rows_of(u) : row.id = first_id[u]

\* Both urls have a row, one url was written again after its INSERT, and an
\* INSERT of a connection that had lost the race was rejected.
C18_Witness ==
  /\ integrity_errors > 0
  /\ \A u \in CacheURLs : first_id[u] # 0
  /\ \E u \in CacheURLs : \E row \in rows_of(u) :
        row.id = first_id[u] /\ row.file_id # json_dumps(<<"p1">>)
  /\ save_calls = MaxSaves

\* The message with the i-th smallest id of the batch in processing.
ith_smallest(i) == sort_by_message_id(voice_messages)[i]

\* C19 as stated: the i-th published section is labelled i and is the
\* transcript of the message with the i-th smallest id of the batch.
C19_IthSectionIthMessage ==
  voice_pc = "published" =>
    \A i \in 1..Len(combined_text) :
      /\ combined_text[i].label = i
      /\ combined_text[i].text = transcript(ith_smallest(i))

\* C19: the published sections follow ascending message id, whatever the
\* order of arrival and of completion: the section labelled i is the
\* transcript of the message with the i-th smallest id, the labels ascend, and
\* exactly the messages with a non-empty transcript have a section.
C19_SectionsFollowMessageId ==
  voice_pc = "published" =>
    /\ \A k \in 1..Len(combined_text) :
         /\ combined_text[k].label \in 1..Len(voice_messages)
         /\ combined_text[k].text = transcript(ith_smallest(combined_text[k].label))
         /\ k > 1 => combined_text[k - 1].label < combined_text[k].label
    /\ \A i \in 1..Len(voice_messages) :
         futures[i].text # EmptyText <=> \E k \in 1..Len(combined_text) : combined_text[k].label = i

\* A batch of three was published whose messages arrived out of id order and
\* whose transcriptions ended out of order, one of them empty.
C19_Witness ==
  /\ voice_pc = "published"
  /\ Len(voice_messages) = 3
  /\ Len(combined_text) = 2
  /\ completed[1] = 3
  /\ messages # voice_messages

\* C20: the buffer never holds BATCH_MAX_SIZE messages once
\* add_message_to_batch has returned, and no flushed batch has more than
\* BATCH_MAX_SIZE messages.
C20_FlushAtBatchMaxSize ==
  /\ Len(user_message_batches) < BATCH_MAX_SIZE
  /\ Len(voice_messages) <= BATCH_MAX_SIZE

\* process_batch takes a non-empty buffer in this step.
flush_step == user_message_batches # <<>> /\ user_message_batches' = <<>>

\* C21: at most one timer of the user is pending, and the buffer is flushed
\* only when BATCH_TIMEOUT has passed since the latest arrival.
C21_DebounceReset ==
  [][/\ timers_pending' <= 1
     /\ flush_step => since_arrival >= BATCH_TIMEOUT]_vars

\* ---------------------------------------------------------------- carousels
\* The carousel branch of process_single_url (the message path) and of
\* download_and_cache_inline (the inline path): more than one file was
\* downloaded, the photos and videos are put into one media group and the group
\* is sent in chunks of chunk_size.

\* The longest file list of a carousel.
MaxCarousel == 11

early_vars == <<req_vars, download_semaphore, anon_vars, tr_vars, url_vars, msg_vars,
                store_vars, batch_vars, timer_vars>>

not_car_vars == <<early_vars, video_vars, ytdlp_vars, cursor_vars, salvage_vars,
                  probe_vars, sweep_vars, hk_vars, key_vars>>

CarouselPaths == {"message", "inline"}

\* The kinds of the files of a carousel: files is every file of the task
\* directory, media_files keeps the photo, video and audio extensions.
FileKinds == {"photo", "video", "audio"}

\* The file lists tried: photos, with at most one file of any kind among them.
CarouselFiles ==
  UNION {{[i \in 1..n |-> IF i = j THEN k ELSE "photo"] : j \in 1..n, k \in FileKinds}
         : n \in 2..MaxCarousel}

\* The media group built from the file list: a file is appended when its
\* extension is one of a photo or of a video, and the caption is given to the
\* file of index 0 of the list.  An item is the (1-based) index of its file.
media_group_items(files) ==
  LET item(i) == [file |-> i, caption |-> (i = 1)]
      RECURSIVE build(_)
      build(i) ==
        IF i > Len(files) THEN <<>>
        ELSE (IF files[i] \in {"photo", "video"} THEN <<item(i)>> ELSE <<>>)
             \o build(i + 1)
  IN  build(1)

\* chunk = media_group[i:i + chunk_size]
chunk_at(mg, i) ==
  SubSeq(mg, i + 1, IF i + chunk_size < Len(mg) THEN i + chunk_size ELSE Len(mg))

\* One call of answer_media_group / send_media_group.
group_send(chunk, retry, ok) ==
  [call |-> "media_group", items |-> chunk, retry |-> retry, ok |-> ok]

\* The harvest loop of the message path over the reply to the chunk at i:
\* the id of every message is appended, and files[i + msg_idx] is removed.
harvested_files(chunk) == [p \in 1..Len(chunk) |-> chunk[p].file]

removed_by_index(files, i, chunk) ==
  {[file |-> i + p, harvested |-> chunk[p].file] :
     p \in {q \in 1..Len(chunk) : i + q <= Len(files)}}

\* The branch is entered with the files downloaded.  The inline path returns
\* (None, None) when the media group is empty.
carousel_start(p, files) ==
  /\ car_pc = "none"
  /\ car_path' = p
  /\ car_files' = files
  /\ car_i' = 0
  /\ car_pc' = IF p = "inline" /\ media_group_items(files) = <<>> THEN "done"
               ELSE "chunks"
  /\ UNCHANGED <<not_car_vars, car_sends, car_sent_all, car_ids, car_removed,
                 car_cleaned>>

next_chunk(mg, after) ==
  /\ car_i' = car_i + chunk_size
  /\ car_pc' = IF car_i + chunk_size < Len(mg) THEN "chunks" ELSE after

\* One iteration of the loop of process_single_url.  The outcomes: the group
\* is sent; TelegramNetworkError with a timeout, and the one retry of the
\* group after 5 s is sent or fails; any other exception.  Every failure
\* answers an error message and cleans the task directory, and the loop goes
\* on with the next chunk.  Once the task directory is cleaned the files of
\* the later chunks are gone and their sends fail.
MessageOutcomes == {"sent", "timeout_sent", "timeout_failed", "failed"}

process_single_url_chunk(outcome) ==
  LET mg == media_group_items(car_files)
      chunk == chunk_at(mg, car_i)
      harvest == outcome \in {"sent", "timeout_sent"}
      calls == IF outcome = "sent" THEN <<group_send(chunk, FALSE, TRUE)>>
               ELSE IF outcome = "failed" THEN <<group_send(chunk, FALSE, FALSE)>>
               ELSE <<group_send(chunk, FALSE, FALSE),
                      group_send(chunk, TRUE, outcome = "timeout_sent")>>
  IN  /\ car_pc = "chunks" /\ car_path = "message"
      /\ car_i < Len(mg)
      /\ car_cleaned => outcome = "failed"
      /\ car_sends' = car_sends \o calls
      /\ car_ids' = IF harvest THEN car_ids \o harvested_files(chunk) ELSE car_ids
      /\ car_removed' = IF harvest
                        THEN car_removed \cup removed_by_index(car_files, car_i, chunk)
                        ELSE car_removed
      /\ car_cleaned' = (car_cleaned \/ ~harvest)
      /\ next_chunk(mg, "done")
      /\ UNCHANGED <<not_car_vars, car_path, car_files, car_sent_all>>

\* One iteration of the loop of download_and_cache_inline: the messages of a
\* chunk that was sent are appended to sent_messages_all, an exception is
\* logged, and the loop goes on with the next chunk.
download_and_cache_inline_chunk(ok) ==
  LET mg == media_group_items(car_files)
      chunk == chunk_at(mg, car_i)
  IN  /\ car_pc = "chunks" /\ car_path = "inline"
      /\ car_i < Len(mg)
      /\ car_sends' = Append(car_sends, group_send(chunk, FALSE, ok))
      /\ car_sent_all' = IF ok THEN car_sent_all \o harvested_files(chunk)
                         ELSE car_sent_all
      /\ next_chunk(mg, "harvest")
      /\ UNCHANGED <<not_car_vars, car_path, car_files, car_ids, car_removed,
                     car_cleaned>>

\* After the loop: the id of every message of sent_messages_all is appended
\* and media_files[idx] is removed, idx the index of the message in
\* sent_messages_all.
download_and_cache_inline_harvest ==
  /\ car_pc = "harvest"
  /\ car_ids' = car_sent_all
  /\ car_removed' = {[file |-> idx, harvested |-> car_sent_all[idx]] :
                       idx \in {q \in 1..Len(car_sent_all) : q <= Len(car_files)}}
  /\ car_pc' = "done"
  /\ UNCHANGED <<not_car_vars, car_path, car_files, car_i, car_sends, car_sent_all,
                 car_cleaned>>

NextCarousel ==
  \/ \E p \in CarouselPaths, files \in CarouselFiles : carousel_start(p, files)
  \/ \E outcome \in MessageOutcomes : process_single_url_chunk(outcome)
  \/ \E ok \in BOOLEAN : download_and_cache_inline_chunk(ok)
  \/ download_and_cache_inline_harvest

SpecCarousel == Init /\ [][NextCarousel]_vars

\* The items of the groups sent, the retries of a group left out.
RECURSIVE items_of(_)
items_of(sends) ==
  IF sends = <<>> THEN <<>>
  ELSE (IF Head(sends).retry THEN <<>> ELSE Head(sends).items) \o items_of(Tail(sends))

first_sends == SelectSeq(car_sends, LAMBDA s : ~s.retry)

\* C22: a carousel is sent as consecutive media groups of at most chunk_size
\* items each (every group but the last one of exactly chunk_size), in file
\* order, and the first item of the whole carousel, and no other item, carries
\* the caption.
C22_GroupsOfTenCaptionFirst ==
  LET items == items_of(car_sends)
  IN  /\ \A s \in 1..Len(car_sends) :
           /\ car_sends[s].call = "media_group"
           /\ Len(car_sends[s].items) \in 1..chunk_size
      /\ \A s \in 1..Len(first_sends) :
           s < Len(first_sends) => Len(first_sends[s].items) = chunk_size
      /\ \A p, q \in 1..Len(items) : p < q => items[p].file < items[q].file
      /\ \A p \in 1..Len(items) : items[p].caption <=> (p = 1)

\* The part of C22 that holds: the groups, their sizes and their order, and
\* no item but the first carries the caption; the first item carries it when
\* the first file of the list is a photo or a video.
C22_GroupsOfTen ==
  LET items == items_of(car_sends)
  IN  /\ \A s \in 1..Len(car_sends) : Len(car_sends[s].items) \in 1..chunk_size
      /\ \A s \in 1..Len(first_sends) :
           s < Len(first_sends) => Len(first_sends[s].items) = chunk_size
      /\ \A p, q \in 1..Len(items) : p < q => items[p].file < items[q].file
      /\ \A p \in 1..Len(items) : items[p].caption => (p = 1)
      /\ (items # <<>> /\ car_files[1] \in {"photo", "video"}) => items[1].caption

\* Eleven photos went out as a group of ten followed by a group of one.
C22_TenThenOne ==
  /\ car_pc = "done" /\ Len(car_files) = chunk_size + 1
  /\ Len(first_sends) = 2
  /\ Len(first_sends[1].items) = chunk_size /\ Len(first_sends[2].items) = 1

\* The sends of a chunk that failed and was not sent by its retry either.
failed_sends ==
  {s \in 1..Len(car_sends) :
     /\ ~car_sends[s].ok
     /\ ~(s < Len(car_sends) /\ car_sends[s + 1].retry /\ car_sends[s + 1].ok)}

\* The send calls other than of a media group that carry the file alone.
individual_sends(file) ==
  {t \in 1..Len(car_sends) :
     /\ car_sends[t].call # "media_group"
     /\ \E p \in 1..Len(car_sends[t].items) : car_sends[t].items[p].file = file}

\* C23: when the send of a chunk of a carousel has failed, every file of the
\* chunk is attempted exactly once more, by an individual send.
C23_FailedChunkSentIndividually ==
  car_pc = "done" =>
    \A s \in failed_sends :
      \A p \in 1..Len(car_sends[s].items) :
        Cardinality(individual_sends(car_sends[s].items[p].file)) = 1

\* C30: a file is removed in the harvest of a carousel only if the id
\* harvested at that step is the id of that very file.
C30_RemovedOnlyIfHarvested ==
  \A r \in car_removed : r.file = r.harvested

\* ------------------------------------------------------------ single videos
\* The branch of a single video file of process_single_url (the message path)
\* and of download_and_cache_inline (the inline path): the file is optimized
\* or compressed, and sent.  Sizes are in MB.

\* needs_compression = file_size > 48 * 1024 * 1024
ceiling_mb == 48
\* send_file_with_retry(..., max_retries: int = 3, ...)
max_retries == 3
\* wait_time = (attempt + 1) * 5
wait_unit == 5

not_video_vars == <<early_vars, car_vars, ytdlp_vars, cursor_vars, salvage_vars,
                    probe_vars, sweep_vars, hk_vars, key_vars>>

\* Sizes of a video file: below the ceiling, at the ceiling, above it.
VideoSizes == {ceiling_mb - 1, ceiling_mb, ceiling_mb + 1}

\* What optimize_for_telegram and compress_video return: None, or the path of
\* the file written, of any size (compress_video aims at target_size_mb with
\* one pass of a variable bitrate and does not look at the size it got).
NoOutput == [path |-> "None", size |-> 0]
ToolResults == {NoOutput} \cup {[path |-> "file", size |-> s] : s \in VideoSizes}

\* One run of a tool under "async with optimization_semaphore".
tool_run(tool, out) == [tool |-> tool, slot |-> TRUE, out |-> out]

\* "if optimized_path and os.path.exists(optimized_path)": the output is
\* sent, otherwise the original.
path_to_send(out, original) == IF out.path = "file" THEN out.size ELSE original

\* needs_telegram_optimization: True when the file is larger than 48 MB, and
\* for the codec, the aspect ratio or a failing probe at any size.
needs_telegram_optimization(size) ==
  IF size > ceiling_mb THEN {TRUE} ELSE BOOLEAN

\* The branch is entered with one video file.
single_video(p, size, opt) ==
  /\ video_pc = "none"
  /\ video_pc' = "video" /\ video_path' = p /\ file_size' = size /\ needs_opt' = opt
  /\ UNCHANGED <<not_video_vars, tool_runs, file_path_to_send, send_attempt, sleeps,
                 send_calls>>

prepared(runs, to_send) ==
  /\ tool_runs' = runs /\ file_path_to_send' = to_send /\ video_pc' = "send"
  /\ UNCHANGED <<not_video_vars, video_path, file_size, needs_opt, send_attempt,
                 sleeps, send_calls>>

\* process_single_url, needs_compression: compress_video runs, and a failed
\* compression leaves the original to be sent.
process_single_url_compress(out) ==
  /\ video_pc = "video" /\ video_path = "message"
  /\ file_size > ceiling_mb
  /\ prepared(<<tool_run("compress", out)>>, path_to_send(out, file_size))

\* process_single_url, not needs_compression: the file is optimized when
\* needs_telegram_optimization says so, and a failed optimization leaves the
\* original to be sent.
process_single_url_optimize(out) ==
  /\ video_pc = "video" /\ video_path = "message"
  /\ ~(file_size > ceiling_mb) /\ needs_opt
  /\ prepared(<<tool_run("optimize", out)>>, path_to_send(out, file_size))

process_single_url_as_is ==
  /\ video_pc = "video" /\ video_path = "message"
  /\ ~(file_size > ceiling_mb) /\ ~needs_opt
  /\ prepared(<<>>, file_size)

\* download_and_cache_inline: the file is optimized when
\* needs_telegram_optimization says so; compress_video is not called.
download_and_cache_inline_optimize(out) ==
  /\ video_pc = "video" /\ video_path = "inline"
  /\ needs_opt
  /\ prepared(<<tool_run("optimize", out)>>, path_to_send(out, file_size))

download_and_cache_inline_as_is ==
  /\ video_pc = "video" /\ video_path = "inline"
  /\ ~needs_opt
  /\ prepared(<<>>, file_size)

\* The outcomes of one send call: the message, a TelegramNetworkError whose
\* text holds 'timeout' or 'timed out', another TelegramNetworkError, any
\* other exception.
SendResults == {"sent", "timeout", "network", "error"}

send_call(outcome) == [size |-> file_path_to_send, outcome |-> outcome]

\* One iteration of "for attempt in range(max_retries)" of
\* send_file_with_retry.
send_file_with_retry(outcome) ==
  LET retry == outcome = "timeout" /\ send_attempt < max_retries - 1
  IN  /\ video_pc = "send" /\ video_path = "message"
      /\ send_attempt < max_retries
      /\ send_calls' = Append(send_calls, send_call(outcome))
      /\ sleeps' = IF retry THEN Append(sleeps, (send_attempt + 1) * wait_unit)
                   ELSE sleeps
      /\ send_attempt' = IF retry THEN send_attempt + 1 ELSE send_attempt
      /\ video_pc' = IF retry THEN "send"
                     ELSE IF outcome = "sent" THEN "done" ELSE "raised"
      /\ UNCHANGED <<not_video_vars, video_path, file_size, needs_opt, tool_runs,
                     file_path_to_send>>

\* download_and_cache_inline: one bot.send_video, an exception is raised on.
download_and_cache_inline_send_video(outcome) ==
  /\ video_pc = "send" /\ video_path = "inline"
  /\ send_calls' = Append(send_calls, send_call(outcome))
  /\ video_pc' = IF outcome = "sent" THEN "done" ELSE "raised"
  /\ UNCHANGED <<not_video_vars, video_path, file_size, needs_opt, tool_runs,
                 file_path_to_send, send_attempt, sleeps>>

NextVideo ==
  \/ \E p \in CarouselPaths, size \in VideoSizes :
       \E opt \in needs_telegram_optimization(size) : single_video(p, size, opt)
  \/ \E out \in ToolResults : process_single_url_compress(out)
  \/ \E out \in ToolResults : process_single_url_optimize(out)
  \/ process_single_url_as_is
  \/ \E out \in ToolResults : download_and_cache_inline_optimize(out)
  \/ download_and_cache_inline_as_is
  \/ \E outcome \in SendResults : send_file_with_retry(outcome)
  \/ \E outcome \in SendResults : download_and_cache_inline_send_video(outcome)

SpecVideo == Init /\ [][NextVideo]_vars

runs_of(tool) == {t \in 1..Len(tool_runs) : tool_runs[t].tool = tool}

\* C24: when compress_video has failed, or its output is still larger than
\* the ceiling, no file is given to a send call; and no video larger than the
\* ceiling is given to a send call.
C24_NoSendAfterFailedCompression ==
  /\ (\E t \in runs_of("compress") :
        \/ tool_runs[t].out.path = "None"
        \/ tool_runs[t].out.size > ceiling_mb) => send_calls = <<>>
  /\ \A c \in 1..Len(send_calls) : send_calls[c].size <= ceiling_mb

\* C25: for a video that needs optimization, once it is given to the send,
\* optimize_for_telegram has run first and under the optimization slot, and
\* compress_video has run after it if and only if the optimized file is
\* still larger than the ceiling.
C25_OptimizeThenCompress ==
  (video_pc \in {"send", "done", "raised"} /\ needs_opt) =>
    /\ tool_runs # <<>>
    /\ tool_runs[1].tool = "optimize" /\ tool_runs[1].slot
    /\ runs_of("compress") \subseteq {2}
    /\ (runs_of("compress") # {}) <=>
         (tool_runs[1].out.path = "file" /\ tool_runs[1].out.size > ceiling_mb)

\* The backoffs of three retries.
RECURSIVE backoffs(_)
backoffs(n) == IF n = 0 THEN <<>> ELSE Append(backoffs(n - 1), n * wait_unit)

is_prefix(s, t) == Len(s) <= Len(t) /\ SubSeq(t, 1, Len(s)) = s

\* C29: a send is retried only after a network timeout, the sleeps before the
\* retries are 5 s, 10 s and 15 s, the timeout is raised only after the three
\* retries, and any other failure is raised at its first occurrence.
C29_ThreeRetriesOnTimeout ==
  (video_path = "message") =>
    /\ \A c \in 1..Len(send_calls) :
         c < Len(send_calls) => send_calls[c].outcome = "timeout"
    /\ is_prefix(sleeps, backoffs(max_retries))
    /\ (video_pc = "raised" /\ send_calls[Len(send_calls)].outcome = "timeout")
         => sleeps = backoffs(max_retries)
    /\ (send_calls # <<>> /\ send_calls[Len(send_calls)].outcome \in {"network", "error"})
         => video_pc = "raised"

\* The part of C29 that holds: the attempts are three, the retries two.
C29_ThreeAttempts ==
  (video_path = "message") =>
    /\ \A c \in 1..Len(send_calls) :
         c < Len(send_calls) => send_calls[c].outcome = "timeout"
    /\ Len(send_calls) <= max_retries
    /\ is_prefix(sleeps, backoffs(max_retries - 1))
    /\ (video_pc = "raised" /\ send_calls[Len(send_calls)].outcome = "timeout")
         => sleeps = backoffs(max_retries - 1)
    /\ (send_calls # <<>> /\ send_calls[Len(send_calls)].outcome \in {"network", "error"})
         => video_pc = "raised"

\* ------------------------------------------------------------ the extractor
\* The call sites of yt_dlp and the lock _ytdlp_lock of downloader.py.  The
\* threads are the download threads (asyncio.to_thread of Downloader.download)
\* and the threads of expand_short_url (asyncio.to_thread of _extract_url).

Threads == {"t1", "t2", "t3"}

not_ytdlp_vars == <<early_vars, car_vars, video_vars, cursor_vars, salvage_vars,
                    probe_vars, sweep_vars, hk_vars, key_vars>>

\* The call sites under "with _ytdlp_lock": ydl.download of _download_ytdlp
\* and of its variants, and the metadata lookup extract_info(download=False)
\* of _get_soundcloud_metadata.
LockedCalls == {"download", "metadata"}

\* A download thread reaches "with _ytdlp_lock".
Downloader_call(t, call) ==
  /\ thread_pc[t] = "idle"
  /\ thread_call' = [thread_call EXCEPT ![t] = call]
  /\ thread_pc' = [thread_pc EXCEPT ![t] = "waiting"]
  /\ UNCHANGED <<not_ytdlp_vars, ytdlp_lock>>

\* _ytdlp_lock.__enter__: the thread waits until the lock is free, then
\* runs yt_dlp.YoutubeDL(...).
ytdlp_lock_enter(t) ==
  /\ thread_pc[t] = "waiting"
  /\ ytdlp_lock = "free"
  /\ ytdlp_lock' = t
  /\ thread_pc' = [thread_pc EXCEPT ![t] = "in_yt_dlp"]
  /\ UNCHANGED <<not_ytdlp_vars, thread_call>>

\* _ytdlp_lock.__exit__, by return or by an exception of yt_dlp.
ytdlp_lock_exit(t) ==
  /\ thread_pc[t] = "in_yt_dlp"
  /\ ytdlp_lock' = IF ytdlp_lock = t THEN "free" ELSE ytdlp_lock
  /\ thread_pc' = [thread_pc EXCEPT ![t] = "idle"]
  /\ thread_call' = [thread_call EXCEPT ![t] = "none"]
  /\ UNCHANGED not_ytdlp_vars

\* expand_short_url for a short link: the thread of _extract_url reaches
\* "with yt_dlp.YoutubeDL(ydl_opts) as ydl" and has not touched _ytdlp_lock.
expand_short_url_extract(t) ==
  /\ thread_pc[t] = "idle"
  /\ thread_call' = [thread_call EXCEPT ![t] = "expand"]
  /\ thread_pc' = [thread_pc EXCEPT ![t] = "at_yt_dlp"]
  /\ UNCHANGED <<not_ytdlp_vars, ytdlp_lock>>

\* bot.py binds the name yt_dlp nowhere: the evaluation of yt_dlp.YoutubeDL
\* raises NameError, _extract_url logs it and returns None, and
\* expand_short_url returns the link it was given.
expand_short_url_raise(t) ==
  /\ thread_pc[t] = "at_yt_dlp"
  /\ thread_pc' = [thread_pc EXCEPT ![t] = "idle"]
  /\ thread_call' = [thread_call EXCEPT ![t] = "none"]
  /\ UNCHANGED <<not_ytdlp_vars, ytdlp_lock>>

NextExtractor ==
  \/ \E t \in Threads, call \in LockedCalls : Downloader_call(t, call)
  \/ \E t \in Threads : ytdlp_lock_enter(t)
  \/ \E t \in Threads : ytdlp_lock_exit(t)
  \/ \E t \in Threads : expand_short_url_extract(t)
  \/ \E t \in Threads : expand_short_url_raise(t)

SpecExtractor == Init /\ [][NextExtractor]_vars

C26_DownloaderCallsUnderLock ==
  /\ \A t \in Threads : thread_pc[t] = "in_yt_dlp" => ytdlp_lock = t
  /\ Cardinality({t \in Threads : thread_pc[t] = "in_yt_dlp"}) <= 1

\* ------------------------------------------------------- the shared cursor
\* The Database object of bot.py (get_db) has one connection, opened with
\* check_same_thread=False, and one cursor, self.cursor, that every method
\* uses.  The handlers call its methods on the thread of the event loop;
\* cleanup_expired_files_periodically calls cleanup_expired_files through
\* asyncio.to_thread, on a worker thread.  database.py has no lock.

DbThreads == {"loop", "sweeper"}

not_cursor_vars == <<early_vars, car_vars, video_vars, ytdlp_vars, salvage_vars,
                     probe_vars, sweep_vars, hk_vars, key_vars>>

\* The statements of a method, in order: the SELECT it gives self.cursor
\* ("execute" and the table), a fetch from self.cursor, a write, the commit.
\* The table downloaded_files is written only when ENABLE_CLEANUP is off, so
\* the loop of DELETEs of cleanup_expired_files has nothing to go through.
Select(table) == [stmt |-> "execute", table |-> table]
Fetch == [stmt |-> "fetch", table |-> "none"]
Write == [stmt |-> "execute", table |-> "none"]
Commit == [stmt |-> "commit", table |-> "none"]

statements(method) ==
  CASE method = "get_cached_file" -> <<Select("file_cache"), Fetch>>
    [] method = "save_file_to_cache" -> <<Select("file_cache"), Fetch, Write, Commit>>
    [] method = "cleanup_expired_files" -> <<Select("downloaded_files"), Fetch, Commit>>

\* The methods a thread calls.
methods_of(t) ==
  IF t = "loop" THEN {"get_cached_file", "save_file_to_cache"}
  ELSE {"cleanup_expired_files"}

\* A thread enters a method of Database; nothing makes it wait.
Database_call(t, method) ==
  /\ db_method[t] = "none"
  /\ db_method' = [db_method EXCEPT ![t] = method]
  /\ db_next' = [db_next EXCEPT ![t] = 1]
  /\ db_fetched' = [db_fetched EXCEPT ![t] = "none"]
  /\ UNCHANGED <<not_cursor_vars, cursor>>

\* The thread runs the next statement of its method on self.cursor: an
\* execute replaces the result set of the cursor, a fetch reads the result
\* set the cursor holds now.  After the last statement the method returns.
Database_statement(t) ==
  LET stmts == statements(db_method[t])
      stmt == stmts[db_next[t]]
      last == db_next[t] = Len(stmts)
  IN  /\ db_method[t] # "none"
      /\ cursor' = IF stmt.stmt = "execute" THEN stmt.table ELSE cursor
      /\ db_fetched' = IF stmt.stmt = "fetch"
                       THEN [db_fetched EXCEPT ![t] = cursor]
                       ELSE db_fetched
      /\ db_next' = [db_next EXCEPT ![t] = IF last THEN 0 ELSE db_next[t] + 1]
      /\ db_method' = IF last THEN [db_method EXCEPT ![t] = "none"] ELSE db_method
      /\ UNCHANGED not_cursor_vars

NextCursor ==
  \/ \E t \in DbThreads : \E method \in methods_of(t) : Database_call(t, method)
  \/ \E t \in DbThreads : Database_statement(t)

SpecCursor == Init /\ [][NextCursor]_vars

\* C27: no two threads are inside a method of Database at the same time.
C27_OneThreadInDatabase ==
  Cardinality({t \in DbThreads : db_method[t] # "none"}) <= 1

\* Were the calls serialized, every fetch would read the result set of the
\* SELECT of its own method.  This does not hold either: a fetch of one
\* method reads the result set of the SELECT of the other.
C27_FetchReadsOwnSelect ==
  \A t \in DbThreads :
    (db_method[t] # "none" /\ db_fetched[t] # "none") =>
      db_fetched[t] = statements(db_method[t])[1].table

\* -------------------------------------------------------- partial downloads
\* Downloader.download and the wait of process_single_url for it.  A file of
\* the task directory is one of: "big", not temporary and larger than 100 KB;
\* "small", not temporary, larger than 10 KB and at most 100 KB; "tiny", not
\* temporary and at most 10 KB; "part", a *.part or *.ytdl file of any size.

not_salvage_vars == <<early_vars, car_vars, video_vars, ytdlp_vars, cursor_vars,
                      probe_vars, sweep_vars, hk_vars, key_vars>>

TaskFiles == {"big", "small", "tiny", "part"}

\* The branches of download: detect_content_type gives 'photo' (gallery-dl,
\* then yt-dlp); a YouTube video (pytubefix, then yt-dlp); an Instagram reel
\* (yt-dlp without and with cookies); any other video (yt-dlp, then for
\* Instagram and TikTok gallery-dl).
Branches == {"photo", "youtube", "reel", "video"}

\* partial_files = None
NoPartial == {"None"}

\* The scan after a timeout: the files that are not temporary and are larger
\* than 100 KB.
larger_than_100KB(dir) == dir \cap {"big"}

\* The scan at the end of download: not temporary and larger than 10 KB.
larger_than_10KB(dir) == dir \cap {"big", "small"}

\* The end of download: partial_files when it is not None, else the files of
\* the task directory; "No files downloaded." is raised when there are none.
download_return(partial, dir, end) ==
  LET files == IF partial # NoPartial THEN partial ELSE larger_than_10KB(dir)
  IN  /\ dl_files' = files
      /\ dl_pc' = IF files = {} THEN "raised_rmtree" ELSE "returned"
      /\ dl_end' = end
      /\ partial_files' = partial

\* process_single_url calls download in a thread and waits for it.
Downloader_download(branch, fallback) ==
  /\ dl_pc = "none"
  /\ dl_pc' = "extracting" /\ dl_branch' = branch /\ dl_fallback' = fallback
  /\ UNCHANGED <<not_salvage_vars, task_dir, dl_end, partial_files, dl_files>>

\* The tools of the branch have ended without an exception, having written
\* the files dir.
download_tools_return(dir) ==
  /\ dl_pc = "extracting"
  /\ task_dir' = dir
  /\ download_return(NoPartial, dir, "ok")
  /\ UNCHANGED <<not_salvage_vars, dl_branch, dl_fallback>>

\* The branches 'photo', YouTube and reel: the last tool of the branch has
\* raised, with a timeout or not; the task directory is removed and the
\* exception raised on.
download_tools_raise(dir, timeout) ==
  /\ dl_pc = "extracting" /\ dl_branch # "video"
  /\ task_dir' = dir
  /\ dl_end' = IF timeout THEN "timeout" ELSE "error"
  /\ dl_pc' = "raised_rmtree"
  /\ UNCHANGED <<not_salvage_vars, dl_branch, dl_fallback, partial_files, dl_files>>

\* The branch of any other video: _download_ytdlp has raised.  With
\* 'timeout' or 'timed out' in the text the directory is scanned; partial
\* files end the download with them.  Otherwise gallery-dl is tried where it
\* applies, else the exception is raised on.
download_ytdlp_raise(dir, timeout) ==
  LET partial == IF timeout THEN larger_than_100KB(dir) ELSE NoPartial
      end == IF timeout THEN "timeout" ELSE "error"
  IN  /\ dl_pc = "extracting" /\ dl_branch = "video"
      /\ task_dir' = dir
      /\ IF timeout /\ partial # {}
         THEN download_return(partial, dir, end)
         ELSE /\ dl_pc' = IF dl_fallback THEN "fallback" ELSE "raised"
              /\ dl_end' = end
              /\ partial_files' = partial
              /\ UNCHANGED dl_files
      /\ UNCHANGED <<not_salvage_vars, dl_branch, dl_fallback>>

\* The gallery-dl fallback has ended without an exception, having written the
\* files written.
download_gallery_dl_return(written) ==
  /\ dl_pc = "fallback"
  /\ task_dir' = task_dir \cup written
  /\ download_return(partial_files, task_dir \cup written, "ok")
  /\ UNCHANGED <<not_salvage_vars, dl_branch, dl_fallback>>

\* The gallery-dl fallback has raised: "if not partial_files" the directory is
\* scanned (again); without partial files it is removed and the exception
\* raised on.
download_gallery_dl_raise ==
  LET partial == IF partial_files \in {NoPartial, {}}
                 THEN larger_than_100KB(task_dir) ELSE partial_files
  IN  /\ dl_pc = "fallback"
      /\ download_return(partial, task_dir, "error")
      /\ UNCHANGED <<not_salvage_vars, dl_branch, dl_fallback, task_dir>>

\* process_single_url: asyncio.wait_for(asyncio.to_thread(download), 600)
\* runs out while the tools have written the files dir: the timeout is
\* answered, the future gets ([], None) and the request returns.
process_single_url_TimeoutError(dir) ==
  /\ dl_pc \in {"extracting", "fallback"}
  /\ task_dir' = task_dir \cup dir
  /\ dl_end' = "hard_timeout"
  /\ dl_pc' = "timed_out"
  /\ UNCHANGED <<not_salvage_vars, dl_branch, dl_fallback, partial_files, dl_files>>

NextSalvage ==
  \/ \E branch \in Branches, fallback \in BOOLEAN : Downloader_download(branch, fallback)
  \/ \E dir \in SUBSET TaskFiles : download_tools_return(dir)
  \/ \E dir \in SUBSET TaskFiles, timeout \in BOOLEAN : download_tools_raise(dir, timeout)
  \/ \E dir \in SUBSET TaskFiles, timeout \in BOOLEAN : download_ytdlp_raise(dir, timeout)
  \/ \E written \in {{"small"}, {"big"}} : download_gallery_dl_return(written)
  \/ download_gallery_dl_raise
  \/ \E dir \in SUBSET TaskFiles : process_single_url_TimeoutError(dir)

SpecSalvage == Init /\ [][NextSalvage]_vars

salvaged == dl_pc = "returned" /\ dl_files = larger_than_100KB(task_dir)

\* C28: when the extraction has ended by a timeout, of the extractor or the
\* one of 600 s, and the task directory holds a file that is not temporary and
\* is larger than 100 KB, the extraction succeeds with those files; without
\* such a file the request fails.
C28_TimeoutSalvage ==
  (dl_end \in {"timeout", "hard_timeout"}
   /\ dl_pc \in {"returned", "raised", "raised_rmtree", "timed_out"}) =>
    IF larger_than_100KB(task_dir) # {} THEN salvaged ELSE dl_pc # "returned"

\* The part of C28 that holds: a timeout of yt-dlp in the branch of any other
\* video.
C28_YtdlpTimeoutSalvage ==
  (dl_end = "timeout" /\ dl_branch = "video"
   /\ dl_pc \in {"returned", "raised", "raised_rmtree"}) =>
    IF larger_than_100KB(task_dir) # {} THEN salvaged ELSE dl_pc # "returned"


\* ---------------------------------------------------------------------------
\* Downloader.needs_telegram_optimization (src/downloader.py 902-957): the
\* decision itself, on what os.path.getsize and ffprobe report of the file.
\* (needs_telegram_optimization above is the callers' view of it.)
\* ---------------------------------------------------------------------------

not_probe_vars == <<early_vars, car_vars, video_vars, ytdlp_vars, cursor_vars,
                    salvage_vars, sweep_vars, hk_vars, key_vars>>

\* What ffprobe -select_streams v:0 can end with: an error, a timeout or
\* unparsable output ("fail"), no video stream ("empty"), or one stream.
ProbeEnds == {"fail", "empty", "stream"}

\* codec_name as ffprobe prints it; "" stands for a stream without the field.
Codecs == {"h264", "libx264", "hevc", "vp9", ""}

\* <<width, height>>; <<0, 0>> is a stream without the two fields.
Dims == {<<16, 9>>, <<9, 16>>, <<9, 9>>, <<0, 0>>}

\* display_aspect_ratio; "" stands for a stream without the field.
AspectRatios == {"", "N/A", "9:16"}

NoStream == [codec |-> "", dim |-> <<0, 0>>, dar |-> ""]

ProbedFiles ==
  { [size |-> s, probe |-> p, stream |-> NoStream] :
      s \in VideoSizes, p \in {"fail", "empty"} }
  \cup { [size |-> s, probe |-> "stream",
          stream |-> [codec |-> c, dim |-> d, dar |-> a]] :
           s \in VideoSizes, c \in Codecs, d \in Dims, a \in AspectRatios }

\* The codec test left out.
codec_unchecked(codec_name) == TRUE

\* l.940: codec_name not in ['h264', 'libx264'] asks for optimization.
codec_ok(codec_name) == lower(codec_name) \in {"h264", "libx264"}

\* l.944: height > width, with display_aspect_ratio missing or 'N/A'.
portrait_without_ratio(stream) ==
  /\ stream.dim[2] > stream.dim[1]
  /\ stream.dar \in {"", "N/A"}

\* The first element of the returned pair.
Downloader_needs_telegram_optimization(f) ==
  IF f.size > ceiling_mb THEN TRUE
  ELSE IF f.probe = "fail" THEN TRUE
  ELSE IF f.probe = "empty" THEN FALSE
  ELSE IF ~codec_ok(f.stream.codec) THEN TRUE
  ELSE IF portrait_without_ratio(f.stream) THEN TRUE
  ELSE FALSE

\* A caller hands a downloaded file to the function.
needs_telegram_optimization_input(f) ==
  /\ probe_pc = "none"
  /\ probe_pc' = "called"
  /\ probed' = f
  /\ UNCHANGED <<needs_result, not_probe_vars>>

\* The function runs to its return.
needs_telegram_optimization_call ==
  /\ probe_pc = "called"
  /\ probe_pc' = "returned"
  /\ needs_result' = Downloader_needs_telegram_optimization(probed)
  /\ UNCHANGED <<probed, not_probe_vars>>

NextProbe ==
  \/ \E f \in ProbedFiles : needs_telegram_optimization_input(f)
  \/ needs_telegram_optimization_call

SpecProbe == Init /\ [][NextProbe]_vars

\* C31: a file for which the function returns false is at most 48 MB, has an
\* H.264 video stream if it has a video stream at all, and carries an explicit
\* aspect ratio if that stream is portrait; when the probe fails the function
\* returns true.
C31_FalseMeansFit ==
  probe_pc = "returned" =>
    /\ ~needs_result =>
         /\ probed.size <= ceiling_mb
         /\ probed.probe = "stream" =>
              /\ probed.stream.codec \in {"h264", "libx264"}
              /\ probed.stream.dim[2] > probed.stream.dim[1] =>
                   probed.stream.dar \notin {"", "N/A"}
    /\ probed.probe = "fail" => needs_result

\* A portrait H.264 file of 48 MB with its aspect ratio is passed as it is.
C31_PortraitPassed ==
  /\ probe_pc = "returned"
  /\ ~needs_result
  /\ probed.size = ceiling_mb
  /\ probed.probe = "stream"
  /\ probed.stream.codec = "h264"
  /\ probed.stream.dim = <<9, 16>>
  /\ probed.stream.dar = "9:16"


\* ---------------------------------------------------------------------------
\* The hourly sweep of the table downloaded_files: Database.cleanup_expired_files
\* (src/database.py 368-403), run on a worker thread by
\* cleanup_expired_files_periodically (src/bot.py 4213-4222).
\* ---------------------------------------------------------------------------

MaxRows == 2

SweepRows == 1..MaxRows

not_sweep_vars == <<early_vars, car_vars, video_vars, ytdlp_vars, cursor_vars,
                    salvage_vars, probe_vars, hk_vars, key_vars>>

file_of(r) == <<"file", r>>

dir_of(r) == <<"dir", r>>

\* src/bot.py 2935: a row for a file kept on disk, file_path inside task_dir.
save_downloaded_file(r) ==
  /\ r \notin downloaded_files /\ r \notin ttl_over
  /\ file_of(r) \notin on_disk
  /\ downloaded_files' = downloaded_files \cup {r}
  /\ on_disk' = on_disk \cup {file_of(r), dir_of(r)}
  /\ UNCHANGED <<sweep_pc, ttl_over, sweep_due, sweep_expired, deleted_count,
                 sweep_return, not_sweep_vars>>

\* expires_at of the row goes by (24 hours after the save).
ttl_passes(r) ==
  /\ r \in downloaded_files /\ r \notin ttl_over
  /\ ttl_over' = ttl_over \cup {r}
  /\ UNCHANGED <<sweep_pc, downloaded_files, on_disk, sweep_due, sweep_expired,
                 deleted_count, sweep_return, not_sweep_vars>>

\* self.cursor.execute("SELECT id, file_path, task_dir ... WHERE expires_at < ?")
cleanup_expired_files_select ==
  /\ sweep_pc = "none"
  /\ sweep_pc' = "selected"
  /\ sweep_due' = downloaded_files \cap ttl_over
  /\ UNCHANGED <<downloaded_files, ttl_over, on_disk, sweep_expired,
                 deleted_count, sweep_return, not_sweep_vars>>

\* expired = self.cursor.fetchall(). The cursor is the one every method of
\* Database uses: if the event-loop thread has executed a statement on it since
\* the SELECT (own = FALSE), the fetch yields that statement's rows; they are
\* none, or do not unpack into three fields, and the sweep returns 0.
cleanup_expired_files_fetchall(own) ==
  /\ sweep_pc = "selected"
  /\ IF own
       THEN /\ sweep_pc' = "rows"
            /\ sweep_expired' = sweep_due
            /\ UNCHANGED sweep_return
       ELSE /\ sweep_pc' = "returned"
            /\ sweep_return' = 0
            /\ UNCHANGED sweep_expired
  /\ UNCHANGED <<downloaded_files, ttl_over, on_disk, sweep_due, deleted_count,
                 not_sweep_vars>>

\* One round of the loop over expired. os.remove that raises skips the rmtree
\* (the exception is logged); rmtree has ignore_errors=True; the DELETE follows
\* in every case, and DELETE that raises ends the sweep in the outer handler.
cleanup_expired_files_row(r, remove_raises, rmtree_fails, delete_raises) ==
  /\ sweep_pc = "rows"
  /\ r \in sweep_expired
  /\ on_disk' = IF remove_raises THEN on_disk
                ELSE IF rmtree_fails THEN on_disk \ {file_of(r)}
                ELSE on_disk \ {file_of(r), dir_of(r)}
  /\ IF delete_raises
       THEN /\ sweep_pc' = "returned"
            /\ sweep_return' = 0
            /\ UNCHANGED <<downloaded_files, sweep_expired, deleted_count>>
       ELSE /\ downloaded_files' = downloaded_files \ {r}
            /\ sweep_expired' = sweep_expired \ {r}
            /\ deleted_count' = deleted_count + 1
            /\ UNCHANGED <<sweep_pc, sweep_return>>
  /\ UNCHANGED <<ttl_over, sweep_due, not_sweep_vars>>

\* self.connection.commit(); return deleted_count
cleanup_expired_files_return ==
  /\ sweep_pc = "rows"
  /\ sweep_expired = {}
  /\ sweep_pc' = "returned"
  /\ sweep_return' = deleted_count
  /\ UNCHANGED <<downloaded_files, ttl_over, on_disk, sweep_due, sweep_expired,
                 deleted_count, not_sweep_vars>>

NextSweep ==
  \/ \E r \in SweepRows : save_downloaded_file(r)
  \/ \E r \in SweepRows : ttl_passes(r)
  \/ cleanup_expired_files_select
  \/ \E own \in BOOLEAN : cleanup_expired_files_fetchall(own)
  \/ \E r \in SweepRows, remove_raises, rmtree_fails, delete_raises \in BOOLEAN :
       cleanup_expired_files_row(r, remove_raises, rmtree_fails, delete_raises)
  \/ cleanup_expired_files_return

SpecSweep == Init /\ [][NextSweep]_vars

\* C32: after a sweep every row whose expires_at was earlier than the time of
\* the sweep is gone from the table, its file and its directory are gone from
\* the disk, and the sweep has returned the number of these rows.
C32_SweepPurgesExpired ==
  sweep_pc = "returned" =>
    /\ \A r \in sweep_due :
         /\ r \notin downloaded_files
         /\ file_of(r) \notin on_disk
         /\ dir_of(r) \notin on_disk
    /\ sweep_return = Cardinality(sweep_due)

\* C32, what the sweep does keep: a sweep that returns a positive number has
\* removed every due row from the table and returns their number.
C32_CountsDeletedRows ==
  (sweep_pc = "returned" /\ sweep_return > 0) =>
    /\ sweep_due \cap downloaded_files = {}
    /\ sweep_return = Cardinality(sweep_due)


\* ---------------------------------------------------------------------------
\* The directory downloads and the two background tasks that look at the
\* registry active_downloads: cleanup_downloads_when_idle (src/bot.py 4228-4271)
\* and smart_restart_monitor (src/bot.py 4273-4348).
\* ---------------------------------------------------------------------------

not_hk_vars == <<early_vars, car_vars, video_vars, ytdlp_vars, cursor_vars,
                 salvage_vars, probe_vars, sweep_vars, key_vars>>

\* Work that creates, or reads, an entry of downloads:
\*   "inline"  download_and_cache_inline: registers at l.1269, pops at l.1743
\*   "message" process_single_url: registers at l.2633, never pops
\*   "convert" on_convert_action: downloads/<uuid> at l.681, no registration
\*   "reuse"   process_single_url l.2496-2628: sends a file kept on disk, before
\*             the registration at l.2633
\*   "upload"  a file_id sent by the user: downloads/temp_<uuid> at l.3991
WorkKinds == {"inline", "message", "convert", "reuse", "upload"}

Registering == {"inline", "message"}

\* The last minute of the model's clock.
MaxMinutes == 45

\* The period of cleanup_downloads_when_idle, asyncio.sleep(300), in minutes;
\* the clock of the model moves in steps of it.
idle_period == 5
\* time_since_last_activity > 600
idle_limit == 10
\* time_since_last_restart < 1800
cooldown == 30
\* memory_mb > 150
memory_mb_limit == 150
\* memory_percent > 85
memory_percent_limit == 85

\* Work has not been lost with the process.
running == monitor_pc # "exited"

\* A handler starts: its directory appears under downloads, and the two
\* download paths put their key into active_downloads first and note the time
\* in _last_activity_time (l.1272, l.2637).
request_start(w, kind) ==
  /\ running
  /\ work_pc[w] = "none"
  /\ work_kind' = [work_kind EXCEPT ![w] = kind]
  /\ work_pc' = [work_pc EXCEPT ![w] = "using"]
  /\ registered' = IF kind \in Registering THEN registered \cup {w} ELSE registered
  /\ last_activity_time' = IF kind \in Registering THEN now ELSE last_activity_time
  /\ downloads' = downloads \cup {w}
  /\ UNCHANGED <<idle_cycle, now, restart_cooldown, monitor_pc, restart_seen,
                 not_hk_vars>>

\* The handler ends: it removes its directory (ENABLE_CLEANUP; a file kept for
\* reuse stays), and the inline path pops its key in its finally block.
request_end(w) ==
  /\ running
  /\ work_pc[w] = "using"
  /\ work_pc' = [work_pc EXCEPT ![w] = "ended"]
  /\ registered' = IF work_kind[w] = "inline" THEN registered \ {w} ELSE registered
  /\ downloads' = IF work_kind[w] = "reuse" THEN downloads ELSE downloads \ {w}
  /\ UNCHANGED <<work_kind, idle_cycle, now, last_activity_time, restart_cooldown,
                 monitor_pc, restart_seen, not_hk_vars>>

\* asyncio.wait_for around asyncio.to_thread(download) gives up (l.1290): the
\* inline path resolves and pops its key, the worker thread goes on in its
\* directory.
download_and_cache_inline_timeout(w) ==
  /\ running
  /\ work_pc[w] = "using" /\ work_kind[w] = "inline"
  /\ work_pc' = [work_pc EXCEPT ![w] = "outlived"]
  /\ registered' = registered \ {w}
  /\ UNCHANGED <<work_kind, downloads, idle_cycle, now, last_activity_time,
                 restart_cooldown, monitor_pc, restart_seen, not_hk_vars>>

\* The worker thread left behind comes to its end; nobody takes its files.
worker_end(w) ==
  /\ running
  /\ work_pc[w] = "outlived"
  /\ work_pc' = [work_pc EXCEPT ![w] = "ended"]
  /\ UNCHANGED <<work_kind, registered, downloads, idle_cycle, now,
                 last_activity_time, restart_cooldown, monitor_pc, restart_seen,
                 not_hk_vars>>

\* The test left out.
always_idle(registry) == TRUE

\* l.4241: len(active_downloads) == 0
idle(registry) == Cardinality(registry) = 0

\* One cycle of cleanup_downloads_when_idle after its sleep. From the test of
\* the registry to the last removal the coroutine does not await, so the cycle
\* is one step of the event loop.
cleanup_downloads_when_idle ==
  /\ running
  /\ last_activity_time' = IF Cardinality(registered) > 0 THEN now
                           ELSE last_activity_time
  /\ IF idle(registered)
       THEN /\ downloads' = {}
            /\ idle_cycle' = [registry |-> registered, deleted |-> downloads]
       ELSE /\ UNCHANGED downloads
            /\ idle_cycle' = [registry |-> registered, deleted |-> {}]
  /\ UNCHANGED <<work_kind, work_pc, registered, now, restart_cooldown, monitor_pc,
                 restart_seen, not_hk_vars>>

NextIdle ==
  \/ \E w \in Works, kind \in WorkKinds : request_start(w, kind)
  \/ \E w \in Works : request_end(w)
  \/ \E w \in Works : download_and_cache_inline_timeout(w)
  \/ \E w \in Works : worker_end(w)
  \/ cleanup_downloads_when_idle

SpecIdle == Init /\ [][NextIdle]_vars

\* C33: a cycle of the idle cleanup deletes entries of downloads only if the
\* registry was empty in that cycle; with an entry in the registry it deletes
\* nothing.
C33_DeletesOnlyWhenIdle ==
  idle_cycle.deleted # {} => idle_cycle.registry = {}

\* A cycle has deleted something.
C33_CycleDeleted == idle_cycle.deleted # {}

\* C37: the directory of work in progress is under downloads as long as the
\* work goes on, registered or not.
C37_DirectoryKeptWhileUsed ==
  \A w \in Works : work_pc[w] \in {"using", "outlived"} => w \in downloads


\* --- smart_restart_monitor (src/bot.py 4273-4348) ---------------------------

\* What psutil reports, on both sides of the two limits.
MemoryMb == {memory_mb_limit, memory_mb_limit + 1}

MemoryPercent == {memory_percent_limit, memory_percent_limit + 1}

\* The clock moves on.
minutes_pass ==
  /\ running
  /\ now + idle_period <= MaxMinutes
  /\ now' = now + idle_period
  /\ UNCHANGED <<work_kind, work_pc, registered, downloads, idle_cycle,
                 last_activity_time, restart_cooldown, monitor_pc, restart_seen,
                 not_hk_vars>>

\* l.4308-4320: one of the three conditions, each with an empty registry.
restart_wanted(seen) ==
  \/ Cardinality(seen.registry) = 0 /\ seen.idle_for > idle_limit
  \/ Cardinality(seen.registry) = 0 /\ seen.memory_mb > memory_mb_limit
  \/ Cardinality(seen.registry) = 0 /\ seen.memory_percent > memory_percent_limit

\* l.4323: should_restart and time_since_last_restart < 1800 drops the restart.
should_restart(seen) ==
  restart_wanted(seen) /\ ~(seen.since_restart < cooldown)

\* One round of the monitor after its sleep, up to the decision.
smart_restart_monitor_check(memory_mb, memory_percent) ==
  /\ monitor_pc = "sleep"
  /\ LET seen == [registry |-> registered,
                  idle_for |-> now - last_activity_time,
                  memory_mb |-> memory_mb,
                  memory_percent |-> memory_percent,
                  since_restart |-> now - restart_cooldown]
     IN  IF should_restart(seen)
           THEN monitor_pc' = "stop_polling" /\ restart_seen' = seen
           ELSE UNCHANGED <<monitor_pc, restart_seen>>
  /\ UNCHANGED <<work_kind, work_pc, registered, downloads, idle_cycle, now,
                 last_activity_time, restart_cooldown, not_hk_vars>>

\* l.4334: await dp.stop_polling(); handlers of updates already taken go on.
smart_restart_monitor_stop_polling ==
  /\ monitor_pc = "stop_polling"
  /\ monitor_pc' = "sleep_2"
  /\ UNCHANGED <<work_kind, work_pc, registered, downloads, idle_cycle, now,
                 last_activity_time, restart_cooldown, restart_seen, not_hk_vars>>

\* l.4340-4344: await asyncio.sleep(2); os._exit(0)
smart_restart_monitor_exit ==
  /\ monitor_pc = "sleep_2"
  /\ monitor_pc' = "exited"
  /\ UNCHANGED <<work_kind, work_pc, registered, downloads, idle_cycle, now,
                 last_activity_time, restart_cooldown, restart_seen, not_hk_vars>>

NextRestart ==
  \/ NextIdle
  \/ minutes_pass
  \/ \E memory_mb \in MemoryMb, memory_percent \in MemoryPercent :
       smart_restart_monitor_check(memory_mb, memory_percent)
  \/ smart_restart_monitor_stop_polling
  \/ smart_restart_monitor_exit

SpecRestart == Init /\ [][NextRestart]_vars

\* C34: the process is ended only with an empty registry and with one of the
\* three conditions true (no activity for 10 minutes, process memory above
\* 150 MB, system memory above 85 %), and not within 30 minutes of its start.
C34_ExitOnlyWhenIdle ==
  monitor_pc = "exited" =>
    /\ registered = {}
    /\ \/ restart_seen.idle_for > idle_limit
       \/ restart_seen.memory_mb > memory_mb_limit
       \/ restart_seen.memory_percent > memory_percent_limit
    /\ now - restart_cooldown >= cooldown

\* C34, at the time of the decision: the monitor decides to end the process
\* only with an empty registry, one of the three conditions and the cooldown
\* over.
C34_DecidedWhenIdle ==
  monitor_pc # "sleep" =>
    /\ restart_seen.registry = {}
    /\ \/ restart_seen.idle_for > idle_limit
       \/ restart_seen.memory_mb > memory_mb_limit
       \/ restart_seen.memory_percent > memory_percent_limit
    /\ restart_seen.since_restart >= cooldown


\* ---------------------------------------------------------------------------
\* Requests for a url whose leader has ended (Spec).
\* ---------------------------------------------------------------------------

\* The future of request p holds no ids: an empty or error result, or it is
\* cancelled.
empty_or_failed(p) == promise[p].st = "cancelled" \/ promise[p].ids = <<>>

\* In this step request r takes the registry entry of request p as the
\* download to wait for.
joins(r, p) == joined[r] # p /\ joined'[r] = p

\* C35: a request for a url whose leader has ended hits the cache or starts an
\* extraction of its own: no request joins the registry entry of a leader that
\* has left its coroutine with an empty, failed or cancelled future.
C35_NoStaleJoin ==
  [][\A r, p \in Reqs : joins(r, p) => ~(pc[p] = "done" /\ empty_or_failed(p))]_vars


\* --- who removes and who replaces an entry of the registry (Spec) -----------

\* In this step the entry under k, installed by request p, goes away or makes
\* room for another.
entry_lost(k, p) == active_downloads[k] = p /\ active_downloads'[k] # p

\* Request p acts in this step.
acts(p) == pc'[p] # pc[p]

\* C36: an entry of the registry is removed only by the request that installed
\* it and is never replaced by another request's.
C36_EntryOwnedByInstaller ==
  [][\A k \in CanonicalURLs, p \in Reqs :
       entry_lost(k, p) => active_downloads'[k] = NoReq /\ acts(p)]_vars

\* C36, the pending case: an entry whose future is pending is neither removed
\* nor replaced by another request.
C36_PendingEntryKept ==
  [][\A k \in CanonicalURLs, p \in Reqs :
       entry_lost(k, p) /\ promise[p].st = "pending" => acts(p)]_vars


\* ---------------------------------------------------------------------------
\* The way of a voice message from the buffer into a batch (SpecVoice).
\* ---------------------------------------------------------------------------

\* In this step a message that has not arrived before is appended to the
\* buffer.
arrival_step ==
  \E m \in arrived' \ arrived : user_message_batches' = Append(user_message_batches, m)

\* In this step a batch is handed to process_voice_batch.
batch_step == voice_pc' = "files" /\ voice_pc # "files"

\* C38: every message added to the buffer goes into exactly one flushed batch.
\* The buffer changes only by the arrival of a new message and by a flush; a
\* flush hands the whole buffer to process_voice_batch and leaves it empty; a
\* batch is formed only by a flush; and a message in the buffer always has a
\* pending timer or a scheduled process_batch ahead of it.
C38_ExactlyOneBatch ==
  /\ [](user_message_batches # <<>> => batch_timers = "pending" \/ scheduled > 0)
  /\ [][/\ user_message_batches' # user_message_batches => arrival_step \/ flush_step
        /\ flush_step => messages' = user_message_batches
        /\ messages' # messages \/ batch_step => flush_step]_vars

\* A batch has been flushed by the process_batch of an expired timer, a later
\* message waits in the buffer with its timer pending, and the process_batch
\* of another expired timer is still scheduled.
C38_SecondBatchAhead ==
  /\ messages # <<>>
  /\ user_message_batches # <<>>
  /\ batch_timers = "pending"
  /\ scheduled > 0


\* ---------------------------------------------------------------------------
\* The program of Spec with every coroutine and thread that can take a step
\* taking one in the end: the event loop runs every ready coroutine, every
\* wait_for has a finite timeout and every download thread ends.
\* ---------------------------------------------------------------------------

SpecLive == Spec /\ WF_vars(Next)

\* C39: every inline query with a supported url is answered in the end, with
\* results or with an empty list.
C39_EveryQueryAnswered ==
  \A r \in Reqs : (path[r] = "inline") ~> (answer[r] # NoAnswer)


\* ---------------------------------------------------------------------------
\* The key of the cache and of the registry, normalized_url, as the message
\* path (handle_message, src/bot.py 4124-4133, and process_single_url,
\* src/bot.py 2305-2325) and the inline path (inline_handler, src/bot.py
\* 1884-1901) compute it for one link.
\* ---------------------------------------------------------------------------

not_key_vars == <<early_vars, car_vars, video_vars, ytdlp_vars, cursor_vars,
                  salvage_vars, probe_vars, sweep_vars, hk_vars>>

\* _extract_url has returned None.
NoExpansion == <<"None">>

\* _extract_url (src/bot.py 972-994): bot.py binds the name yt_dlp nowhere, the
\* evaluation of yt_dlp.YoutubeDL raises NameError inside the try block, and
\* the function returns None for every link.
extract_url(u) == NoExpansion

\* expand_short_url (src/bot.py 945-1012): the result of _extract_url if it
\* came within 2 s and is a link other than u, and u in every other case.
expand_short_url_return(u, in_time) ==
  LET expanded_url == IF in_time THEN extract_url(u) ELSE NoExpansion
  IN  IF expanded_url # NoExpansion /\ expanded_url # u THEN expanded_url ELSE u

\* From the result of expand_short_url to the key, the same on both paths:
\* expanded_url.rstrip('\\'), is_supported_url, normalize_url.
normalized_url_of(u, in_time) ==
  LET url_to_use == rstrip(expand_short_url_return(u, in_time), {"\\"})
  IN  IF is_supported_url(url_to_use) THEN normalize_url(url_to_use) ELSE <<>>

\* re.findall(URL_PATTERN, text) finds u: no whitespace in it, and either the
\* protocol with something after it or the name of a platform, in small
\* letters, a '/' and something after it.
URL_PATTERN(u) ==
  /\ \A i \in 1..Len(u) : u[i] # " "
  /\ \/ Len(u) >= 2 /\ u[1] = Scheme
     \/ Len(u) >= 3 /\ u[1] \in SUPPORTED_PLATFORMS /\ u[2] = "/"

\* A user types a link of a supported platform.
key_input ==
  /\ user_url = <<>>
  /\ user_url' \in {u \in URLStrings : URL_PATTERN(u) /\ is_supported_url(u)}
  /\ UNCHANGED <<keyed, key_of, not_key_vars>>

\* The link comes in a message: handle_message puts 'https://' before a link
\* without protocol, process_single_url expands and normalizes.
process_single_url_key(in_time) ==
  /\ user_url # <<>>
  /\ "message" \notin keyed
  /\ keyed' = keyed \cup {"message"}
  /\ key_of' = [key_of EXCEPT
                  !["message"] = normalized_url_of(with_scheme(user_url), in_time)]
  /\ UNCHANGED <<user_url, not_key_vars>>

\* The link comes in an inline query: inline_handler takes the first match
\* of URL_PATTERN as it is, expands and normalizes.
inline_handler_key(in_time) ==
  /\ user_url # <<>>
  /\ "inline" \notin keyed
  /\ keyed' = keyed \cup {"inline"}
  /\ key_of' = [key_of EXCEPT !["inline"] = normalized_url_of(user_url, in_time)]
  /\ UNCHANGED <<user_url, not_key_vars>>

NextKey ==
  \/ key_input
  \/ \E in_time \in BOOLEAN : process_single_url_key(in_time)
  \/ \E in_time \in BOOLEAN : inline_handler_key(in_time)

SpecKey == Init /\ [][NextKey]_vars

\* C40: the key computed for a link is the same on the message path and on the
\* inline path, whether the expansion ended within its 2 s or not.
C40_SameKeyOnBothPaths ==
  keyed = {"message", "inline"} => key_of["message"] = key_of["inline"]

\* C40, what does hold: the key of each path is that of the link it was given
\* (no expansion ever changes it), so the two keys are equal for a link typed
\* with its protocol.
C40_SameKeyWithProtocol ==
  /\ "message" \in keyed => key_of["message"] = normalize_url(with_scheme(user_url))
  /\ "inline" \in keyed => key_of["inline"] = normalize_url(user_url)
  /\ keyed = {"message", "inline"} /\ user_url[1] = Scheme
       => key_of["message"] = key_of["inline"]

====
